---- MODULE Spec2Model ----
(***************************************************************************)
(* A model of the decision-caching substrate of PhenomenalLayout:          *)
(*   core/dynamic_programming.py        SmartCache                         *)
(*   core/dynamic_validation_engine.py  ValidationGraph and the pipeline   *)
(* Objects are records, methods are operators from a record (and the       *)
(* call's arguments) to the record after the call and the value returned.  *)
(***************************************************************************)
EXTENDS Integers, Sequences, FiniteSets, TLC

(***************************************************************************)
(* Bounds of the model.                                                    *)
(***************************************************************************)
\* time.time() runs over 0..MaxTime
MaxTime == 2
\* pushes onto the LFU heap between two clear() calls, in SpecLFU
MaxCounter == 5
\* the same, in SpecCache (which runs all four policies)
MaxPushes == 3
\* get hits on one entry between two puts of its key
MaxHits == 1
\* add_validator calls on a graph of its own
MaxAdds == 3
\* add_validator calls on an engine after its construction
MaxCustom == 2
\* add_validator calls on an engine whose validate_optimized is called
MaxEngineAdds == 1
\* register calls on a StrategyRegistry
MaxStrategies == 3
\* calls that record an operation in one PerformanceMetrics
MaxCalls == 3
\* calls of the threads on one SmartCache
MaxCacheCalls == 2
\* bits of the significand of the floats PerformanceMetrics sums
SignificandBits == 3

\* the threads that call one object
Tids == {"t1", "t2"}
Keys == {"a", "b", "c"}
\* the max_size values a cache is constructed with (fewer than there are keys)
Sizes == {1, 2}
Values == {"v1", "v2"}
\* ttl_seconds: 0 stands for None (both are falsy at line 198)
TTLs == {0, 1}
None == "None"

LRU == "lru"
TTL == "ttl"
LFU == "lfu"
FIFO == "fifo"
CachePolicy == {LRU, TTL, LFU, FIFO}

(***************************************************************************)
(* Helpers for Python containers.                                          *)
(***************************************************************************)
\* deque.remove(key) / del ordered_dict[key], guarded by "key in"
SeqRemove(seq, key) == SelectSeq(seq, LAMBDA x : x # key)

SeqSet(seq) == {seq[i] : i \in 1..Len(seq)}

\* del d[key]
DictDel(d, key) == [x \in (DOMAIN d) \ {key} |-> d[x]]

\* d[key] = e
DictSet(d, key, e) == [x \in (DOMAIN d) \cup {key} |-> IF x = key THEN e ELSE d[x]]

\* the tuple heapq.heappop returns: the least (access_count, insertion_order, key);
\* insertion_order is unique within a heap, so keys are never compared
HeapMin(h) ==
    CHOOSE t \in h : \A u \in h :
        \/ t[1] < u[1]
        \/ (t[1] = u[1] /\ t[2] <= u[2])

(***************************************************************************)
(* SmartCache                                                              *)
(***************************************************************************)
CacheEntry(value, t) == [value |-> value, timestamp |-> t, access_count |-> 0]

SmartCache_init(max_size, policy, ttl_seconds) ==
    [max_size |-> max_size,
     policy |-> policy,
     ttl_seconds |-> ttl_seconds,
     cache |-> << >>,
     access_order |-> << >>,
     lfu_heap |-> {},
     lfu_insertion_counter |-> 0,
     lfu_stale_keys |-> {},
     fifo_order |-> << >>]

\* a slip of _remove_key: the key stays in the order structures
SmartCache_remove_key_map_only(s, key) ==
    IF key \notin DOMAIN s.cache THEN s
    ELSE [s EXCEPT !.cache = DictDel(@, key),
                   !.lfu_stale_keys = @ \cup {key}]

SmartCache_remove_key(s, key) ==
    IF key \notin DOMAIN s.cache THEN s
    ELSE [s EXCEPT !.cache = DictDel(@, key),
                   !.access_order = SeqRemove(@, key),
                   !.fifo_order = SeqRemove(@, key),
                   !.lfu_stale_keys = @ \cup {key}]

\* the while loop of the LFU branch of _evict_one
RECURSIVE LfuEvictLoop(_)
LfuEvictLoop(s) ==
    IF s.lfu_heap = {} THEN s
    ELSE LET t == HeapMin(s.lfu_heap)
             access_count == t[1]
             key == t[3]
             popped == [s EXCEPT !.lfu_heap = @ \ {t}]
         IN  IF key \in s.lfu_stale_keys
             THEN LfuEvictLoop([popped EXCEPT !.lfu_stale_keys = @ \ {key}])
             ELSE IF key \in DOMAIN s.cache /\ s.cache[key].access_count = access_count
             THEN [popped EXCEPT !.cache = DictDel(@, key),
                                 !.lfu_stale_keys = @ \ {key}]
             ELSE LfuEvictLoop(popped)

\* a slip of _evict_one: pop() where popleft() is meant
EvictLRU_pop(s) ==
    IF s.access_order # << >>
    THEN [s EXCEPT !.access_order = SubSeq(@, 1, Len(@) - 1),
                   !.cache = DictDel(@, s.access_order[Len(s.access_order)])]
    ELSE s

EvictLRU(s) ==
    IF s.access_order # << >>
    THEN [s EXCEPT !.access_order = Tail(@),
                   !.cache = DictDel(@, Head(s.access_order))]
    ELSE s

\* a slip of _evict_one: popitem(last=True) where last=False is meant
EvictFIFO_last(s) ==
    IF s.fifo_order # << >>
    THEN [s EXCEPT !.fifo_order = SubSeq(@, 1, Len(@) - 1),
                   !.cache = DictDel(@, s.fifo_order[Len(s.fifo_order)])]
    ELSE s

EvictFIFO(s) ==
    IF s.fifo_order # << >>
    THEN [s EXCEPT !.fifo_order = Tail(@),
                   !.cache = DictDel(@, Head(s.fifo_order))]
    ELSE s

SmartCache_evict_one(s) ==
    IF DOMAIN s.cache = {} THEN s
    ELSE CASE s.policy = LRU -> EvictLRU(s)
           [] s.policy = LFU -> LfuEvictLoop(s)
           [] s.policy = FIFO -> EvictFIFO(s)
           [] OTHER -> s

\* entry.access(): access_count += 1 (last_accessed is never read)
EntryAccess(s, key) == [s EXCEPT !.cache[key].access_count = @ + 1]

\* a slip of get: >= where > is meant
Expired_ge(s, key, t) ==
    s.ttl_seconds # 0 /\ (t - s.cache[key].timestamp) >= s.ttl_seconds

Expired(s, key, t) ==
    s.ttl_seconds # 0 /\ (t - s.cache[key].timestamp) > s.ttl_seconds

\* get(key) at time t: the cache after the call and the value returned
SmartCache_get(s, key, t) ==
    IF key \notin DOMAIN s.cache THEN [state |-> s, ret |-> None]
    ELSE IF Expired(s, key, t)
    THEN [state |-> SmartCache_remove_key(s, key), ret |-> None]
    ELSE LET accessed == EntryAccess(s, key)
             value == s.cache[key].value
         IN  CASE s.policy = LRU ->
                    [state |-> [accessed EXCEPT
                                  !.access_order = Append(SeqRemove(@, key), key)],
                     ret |-> value]
               [] s.policy = LFU ->
                    [state |-> [accessed EXCEPT
                                  !.lfu_stale_keys = @ \cup {key},
                                  !.lfu_heap = @ \cup
                                     {<<accessed.cache[key].access_count,
                                        s.lfu_insertion_counter, key>>},
                                  !.lfu_insertion_counter = @ + 1],
                     ret |-> value]
               [] OTHER -> [state |-> accessed, ret |-> value]

\* a slip of put: the capacity check without "key not in self._cache"
NeedsEviction_any(s, key) ==
    Cardinality(DOMAIN s.cache) >= s.max_size

\* the capacity check of put
NeedsEviction(s, key) ==
    Cardinality(DOMAIN s.cache) >= s.max_size /\ key \notin DOMAIN s.cache

\* put(key, value) at time t
SmartCache_put(s, key, value, t) ==
    LET evicted == IF NeedsEviction(s, key) THEN SmartCache_evict_one(s) ELSE s
        stored == [evicted EXCEPT !.cache = DictSet(@, key, CacheEntry(value, t))]
    IN  CASE s.policy = LRU ->
               [stored EXCEPT !.access_order = Append(SeqRemove(@, key), key)]
          [] s.policy = LFU ->
               [stored EXCEPT !.lfu_heap = @ \cup {<<0, s.lfu_insertion_counter, key>>},
                              !.lfu_insertion_counter = @ + 1]
          [] s.policy = FIFO ->
               [stored EXCEPT !.fifo_order = Append(SeqRemove(@, key), key)]
          [] OTHER -> stored

SmartCache_clear(s) ==
    [s EXCEPT !.cache = << >>,
              !.access_order = << >>,
              !.lfu_heap = {},
              !.lfu_stale_keys = {},
              !.fifo_order = << >>,
              !.lfu_insertion_counter = 0]

SmartCache_size(s) == Cardinality(DOMAIN s.cache)

(***************************************************************************)
(* ValidationGraph.  A validator is its name, the names it depends on and  *)
(* its priority, and whether it is one of the engine's default validators  *)
(* (which decides what its can_validate and validate can do);              *)
(* dependencies and dependents are defaultdict(set), total functions here  *)
(* with the empty set as default.                                          *)
(***************************************************************************)
Names == {"custom", "extension", "file_size", "pdf_header", "pdf_structure"}
\* the order Python compares the names in
NameRank ==
    [custom |-> 1, extension |-> 2, file_size |-> 3, pdf_header |-> 4,
     pdf_structure |-> 5]
Priorities == {50, 90}

\* a validator written by the user of the graph
Validator(name, dependencies, priority) ==
    [name |-> name, dependencies |-> dependencies, priority |-> priority,
     default |-> FALSE]

\* the default validation suite; each keeps ValidatorProtocol's priority
FileExtensionValidator ==
    [name |-> "extension", dependencies |-> {}, priority |-> 50, default |-> TRUE]
FileSizeValidator ==
    [name |-> "file_size", dependencies |-> {"extension"}, priority |-> 50,
     default |-> TRUE]
PDFHeaderValidator ==
    [name |-> "pdf_header", dependencies |-> {"extension", "file_size"},
     priority |-> 50, default |-> TRUE]
PDFStructureValidator ==
    [name |-> "pdf_structure", dependencies |-> {"pdf_header"}, priority |-> 50,
     default |-> TRUE]

\* the validators added to a graph of its own: three names, any dependencies
\* among them, two priorities
GraphNames == {"extension", "file_size", "pdf_header"}
Validators ==
    {Validator(n, d, p) : n \in GraphNames, d \in SUBSET GraphNames, p \in Priorities}

\* the validators added to an engine: a new one, or one that takes the place
\* of the default extension validator, depending on each other or on the
\* last validator of the default suite
EngineNames == {"custom", "extension"}
EngineValidators ==
    {Validator(n, d, 50) :
        n \in EngineNames, d \in SUBSET (EngineNames \cup {"pdf_structure"})}

\* _execution_order = None
NoOrder == <<None>>

ValidationGraph_init ==
    [validators |-> << >>,
     dependencies |-> [n \in Names |-> {}],
     dependents |-> [n \in Names |-> {}],
     execution_order |-> NoOrder]

ValidationGraph_add_validator(g, validator) ==
    [g EXCEPT
       !.validators = DictSet(@, validator.name, validator),
       !.dependencies[validator.name] = @ \cup validator.dependencies,
       !.dependents = [dep \in Names |->
                         IF dep \in validator.dependencies
                         THEN @[dep] \cup {validator.name}
                         ELSE @[dep]],
       !.execution_order = NoOrder]

\* (priority, name) tuples as Python orders them
TupleLess(a, b) ==
    \/ a[1] < b[1]
    \/ (a[1] = b[1] /\ NameRank[a[2]] < NameRank[b[2]])

\* list.sort(reverse=True) of distinct (priority, name) tuples
RECURSIVE SortReverse(_)
SortReverse(S) ==
    IF S = {} THEN << >>
    ELSE LET top == CHOOSE a \in S : \A b \in S \ {a} : TupleLess(b, a)
         IN  <<top>> \o SortReverse(S \ {top})

\* the while loop of get_execution_order
RECURSIVE KahnLoop(_, _, _, _)
KahnLoop(g, available, in_degree, execution_order) ==
    IF available = << >> THEN execution_order
    ELSE LET current == Head(available)[2]
             lowered == [n \in DOMAIN in_degree |->
                           IF n \in g.dependents[current]
                           THEN in_degree[n] - 1 ELSE in_degree[n]]
             freed == {d \in g.dependents[current] : lowered[d] = 0}
             added == {<<g.validators[d].priority, d>> : d \in freed}
         IN  KahnLoop(g, SortReverse(SeqSet(Tail(available)) \cup added),
                      lowered, Append(execution_order, current))

\* a slip of get_execution_order: every validator is available at once
TopologicalSort_flat(g) ==
    LET in_degree == [n \in DOMAIN g.validators |-> 0]
        available == SortReverse({<<g.validators[n].priority, n>> :
                                    n \in DOMAIN in_degree})
    IN  KahnLoop(g, available, in_degree, << >>)

TopologicalSort(g) ==
    LET in_degree == [n \in DOMAIN g.validators |-> Cardinality(g.dependencies[n])]
        available == SortReverse({<<g.validators[n].priority, n>> :
                                    n \in {m \in DOMAIN in_degree : in_degree[m] = 0}})
    IN  KahnLoop(g, available, in_degree, << >>)

\* get_execution_order(): the graph after the call, the list returned, and
\* whether ValueError was raised and the set it names
ValidationGraph_get_execution_order(g) ==
    IF g.execution_order # NoOrder
    THEN [graph |-> g, ret |-> g.execution_order, raised |-> FALSE, remaining |-> {}]
    ELSE LET execution_order == TopologicalSort(g)
         IN  IF Len(execution_order) # Cardinality(DOMAIN g.validators)
             THEN [graph |-> g, ret |-> NoOrder, raised |-> TRUE,
                   remaining |-> (DOMAIN g.validators) \ SeqSet(execution_order)]
             ELSE [graph |-> [g EXCEPT !.execution_order = execution_order],
                   ret |-> execution_order, raised |-> FALSE, remaining |-> {}]

\* a slip of can_execute: the dependencies of the validator are not looked at
ValidationGraph_can_execute_always(g, validator_name, completed) ==
    {} \subseteq completed

ValidationGraph_can_execute(g, validator_name, completed) ==
    g.dependencies[validator_name] \subseteq completed

(***************************************************************************)
(* The validation pipeline of DynamicValidationEngine.                     *)
(***************************************************************************)
VALID == "valid"
INVALID == "invalid"
WARNING == "warning"
SKIPPED == "skipped"
ERROR == "error"

CRITICAL == "critical"
HIGH == "high"
MEDIUM == "medium"
LOW == "low"
INFO == "info"

ValidationOutcome(validator_name, result, severity, dependencies_satisfied) ==
    [validator_name |-> validator_name, result |-> result, severity |-> severity,
     dependencies_satisfied |-> dependencies_satisfied]

is_blocking(outcome) ==
    outcome.result = INVALID /\ outcome.severity \in {CRITICAL, HIGH}

\* What a validator does with the context of a run: can_validate returns
\* True or False or raises, and validate returns an outcome or raises.
Raise == <<"raise", "raise">>
Returned == {<<VALID, INFO>>, <<INVALID, CRITICAL>>, <<INVALID, HIGH>>, <<INVALID, MEDIUM>>}
Behaviours ==
    {[can |-> "true", out |-> o] : o \in Returned \cup {Raise}}
        \cup {[can |-> c, out |-> Raise] : c \in {"false", "raise"}}

\* the outcomes the validate of each default validator returns; none raises
DefaultReturned ==
    [extension |-> {<<VALID, INFO>>, <<INVALID, HIGH>>},
     file_size |-> {<<VALID, INFO>>, <<INVALID, HIGH>>},
     pdf_header |-> {<<VALID, INFO>>, <<INVALID, HIGH>>, <<ERROR, HIGH>>},
     pdf_structure |-> {<<VALID, INFO>>, <<WARNING, MEDIUM>>, <<ERROR, MEDIUM>>}]

\* what a registered validator can do in a run; the can_validate of a default
\* validator returns True or False
BehavioursOf(validator) ==
    IF validator.default
    THEN {[can |-> "true", out |-> o] : o \in DefaultReturned[validator.name]}
            \cup {[can |-> "false", out |-> Raise]}
    ELSE Behaviours

(***************************************************************************)
(* The default validators on a ValidationContext.  Of the file the context *)
(* holds its path, extension and size; header and tail stand for what      *)
(* open(file_path).read() gives the PDF validators.                        *)
(***************************************************************************)
\* FileSizeValidator(max_size_mb=50.0, min_size_bytes=1)
min_size_bytes == 1
max_size_bytes == 52428800

ValidationContext(file_path, file_ext, file_size, header, tail) ==
    [file_path |-> file_path, file_ext |-> file_ext, file_size |-> file_size,
     header |-> header, tail |-> tail]

\* the contexts _create_context builds: an existing file a.<ext> of some
\* size (an empty file has neither a PDF header nor an end marker), or a
\* path that does not exist (size 0, unreadable)
Contexts ==
    {ValidationContext("a" \o e, e, z, h, t) :
        e \in {"", ".pdf", ".txt"}, z \in {1, max_size_bytes + 1},
        h \in {"%PDF-", "other"}, t \in {"%%EOF", "other"}}
      \cup {ValidationContext("a" \o e, e, 0, h, h) :
              e \in {"", ".pdf", ".txt"}, h \in {"other", "OSError"}}

FileExtensionValidator_can_validate(context) == context.file_path # ""

FileExtensionValidator_validate(context) ==
    IF context.file_ext = "" THEN <<INVALID, HIGH>>
    ELSE IF context.file_ext \notin {".pdf"} THEN <<INVALID, HIGH>>
    ELSE <<VALID, INFO>>

FileSizeValidator_can_validate(context) == context.file_size > 0

FileSizeValidator_validate(context) ==
    IF context.file_size < min_size_bytes THEN <<INVALID, HIGH>>
    ELSE IF context.file_size > max_size_bytes THEN <<INVALID, HIGH>>
    ELSE <<VALID, INFO>>

PDFHeaderValidator_can_validate(context) == context.file_ext = ".pdf"

PDFHeaderValidator_validate(context) ==
    IF context.header = "OSError" THEN <<ERROR, HIGH>>
    ELSE IF context.header # "%PDF-" THEN <<INVALID, HIGH>>
    ELSE <<VALID, INFO>>

PDFStructureValidator_can_validate(context) == context.file_ext = ".pdf"

PDFStructureValidator_validate(context) ==
    IF context.tail = "OSError" THEN <<ERROR, MEDIUM>>
    ELSE IF context.tail # "%%EOF" THEN <<WARNING, MEDIUM>>
    ELSE <<VALID, INFO>>

\* what the default validator of this name does with the context
DefaultBehaviour(name, context) ==
    LET can == CASE name = "extension" -> FileExtensionValidator_can_validate(context)
                 [] name = "file_size" -> FileSizeValidator_can_validate(context)
                 [] name = "pdf_header" -> PDFHeaderValidator_can_validate(context)
                 [] name = "pdf_structure" -> PDFStructureValidator_can_validate(context)
        out == CASE name = "extension" -> FileExtensionValidator_validate(context)
                 [] name = "file_size" -> FileSizeValidator_validate(context)
                 [] name = "pdf_header" -> PDFHeaderValidator_validate(context)
                 [] name = "pdf_structure" -> PDFStructureValidator_validate(context)
    IN  IF can THEN [can |-> "true", out |-> out]
        ELSE [can |-> "false", out |-> Raise]

SkippedOutcome(name) == ValidationOutcome(name, SKIPPED, MEDIUM, TRUE)
BlockedOutcome(name) == ValidationOutcome(name, ERROR, HIGH, FALSE)
ErrorOutcome(name) == ValidationOutcome(name, ERROR, HIGH, TRUE)

\* the locals of _execute_validation_pipeline, and which calls it has made
RunStart(execution_order) ==
    [order |-> execution_order, results |-> << >>, completed |-> {},
     can_called |-> {}, validate_called |-> {}, exception |-> FALSE]

\* a slip of the pipeline: the skipped validator is not counted as completed
MarkSkipped_uncompleted(r, validator_name) ==
    [r EXCEPT !.results = DictSet(@, validator_name, SkippedOutcome(validator_name))]

\* the validator cannot validate the context: it is skipped and completed
MarkSkipped(r, validator_name) ==
    [r EXCEPT !.results = DictSet(@, validator_name, SkippedOutcome(validator_name)),
              !.completed = @ \cup {validator_name}]

\* the for loop of _execute_validation_pipeline from position i on
RECURSIVE PipelineLoop(_, _, _, _, _)
PipelineLoop(g, fail_fast, beh, i, r) ==
    IF i > Len(r.order) THEN r
    ELSE
    LET validator_name == r.order[i]
        b == beh[validator_name]
        asked == [r EXCEPT !.can_called = @ \cup {validator_name}]
    IN  IF b.can = "raise" THEN [asked EXCEPT !.exception = TRUE]
        ELSE IF b.can = "false"
        THEN PipelineLoop(g, fail_fast, beh, i + 1, MarkSkipped(asked, validator_name))
        ELSE IF ~ValidationGraph_can_execute(g, validator_name, r.completed)
        THEN LET blocked == [asked EXCEPT !.results =
                               DictSet(@, validator_name, BlockedOutcome(validator_name))]
             IN  IF fail_fast THEN blocked
                 ELSE PipelineLoop(g, fail_fast, beh, i + 1, blocked)
        ELSE LET called == [asked EXCEPT !.validate_called = @ \cup {validator_name}]
             IN  IF b.out = Raise
                 THEN LET failed == [called EXCEPT !.results =
                                       DictSet(@, validator_name, ErrorOutcome(validator_name))]
                      IN  IF fail_fast THEN failed
                          ELSE PipelineLoop(g, fail_fast, beh, i + 1, failed)
                 ELSE LET outcome == ValidationOutcome(validator_name, b.out[1], b.out[2], TRUE)
                          done == [called EXCEPT
                                     !.results = DictSet(@, validator_name, outcome),
                                     !.completed = @ \cup {validator_name}]
                      IN  IF fail_fast /\ is_blocking(outcome) THEN done
                          ELSE PipelineLoop(g, fail_fast, beh, i + 1, done)

\* _execute_validation_pipeline(context): the graph after the call (the order
\* may have been cached), whether get_execution_order raised, and the run
execute_validation_pipeline(g, fail_fast, beh) ==
    LET o == ValidationGraph_get_execution_order(g)
    IN  IF o.raised
        THEN [graph |-> o.graph, raised |-> TRUE, remaining |-> o.remaining,
              run |-> RunStart(NoOrder)]
        ELSE [graph |-> o.graph, raised |-> FALSE, remaining |-> {},
              run |-> PipelineLoop(o.graph, fail_fast, beh, 1, RunStart(o.ret))]

(***************************************************************************)
(* PerformanceMetrics.  Durations are whole milliseconds; the average is   *)
(* kept as the pair (total duration, total calls) it is the quotient of.   *)
(* cache_time_savings_ratio is never assigned and is left out.             *)
(***************************************************************************)
\* float("inf")
Infinity == 1000000

\* the durations time.perf_counter() measures
Durations == {1, 2}

PerformanceMetrics(operation_name) ==
    [operation_name |-> operation_name, total_calls |-> 0, cache_hits |-> 0,
     cache_misses |-> 0, avg_duration_ms |-> <<0, 1>>,
     min_duration_ms |-> Infinity, max_duration_ms |-> 0,
     total_duration_ms |-> 0, cache_hit_duration_ms |-> 0,
     cache_miss_duration_ms |-> 0]

\* the fields record_operation assigns, in the order of its statements
RecordStatements(cache_hit) ==
    <<"total_calls", "total_duration_ms",
      IF cache_hit THEN "cache_hits" ELSE "cache_misses",
      IF cache_hit THEN "cache_hit_duration_ms" ELSE "cache_miss_duration_ms",
      "min_duration_ms", "max_duration_ms", "avg_duration_ms">>

\* the value a statement of record_operation computes from the metrics m
Computed(m, field, duration_ms) ==
    CASE field \in {"total_calls", "cache_hits", "cache_misses"} -> m[field] + 1
      [] field \in {"total_duration_ms", "cache_hit_duration_ms",
                    "cache_miss_duration_ms"} -> m[field] + duration_ms
      [] field = "min_duration_ms" ->
            IF duration_ms < m.min_duration_ms THEN duration_ms
            ELSE m.min_duration_ms
      [] field = "max_duration_ms" ->
            IF duration_ms > m.max_duration_ms THEN duration_ms
            ELSE m.max_duration_ms
      [] field = "avg_duration_ms" -> <<m.total_duration_ms, m.total_calls>>

RECURSIVE RunStatements(_, _, _)
RunStatements(m, statements, duration_ms) ==
    IF statements = << >> THEN m
    ELSE RunStatements([m EXCEPT ![Head(statements)] =
                                     Computed(m, Head(statements), duration_ms)],
                       Tail(statements), duration_ms)

\* record_operation(duration_ms, cache_hit) run without interruption
record_operation(m, duration_ms, cache_hit) ==
    RunStatements(m, RecordStatements(cache_hit), duration_ms)

(***************************************************************************)
(* record_operation on durations that are not whole milliseconds.  The     *)
(* durations and the three duration sums are floats, and each += rounds    *)
(* its sum to the significand (round to nearest, ties to even).  A float   *)
(* is written as a whole number of units; Python's significand has 53      *)
(* bits, the model's has SignificandBits, so that sums round at the sizes  *)
(* the model reaches.  Sums of whole milliseconds below 2^53 do not round, *)
(* which is what record_operation above computes.                          *)
(***************************************************************************)
RECURSIVE BitLength(_)
BitLength(x) == IF x = 0 THEN 0 ELSE 1 + BitLength(x \div 2)

\* x rounded to a float of `bits` significant bits
RoundToSignificand(x, bits) ==
    LET e == BitLength(x) - bits
    IN  IF e <= 0 THEN x
        ELSE LET unit == 2 ^ e
                 q == x \div unit
                 r == x % unit
                 half == unit \div 2
                 up == r > half \/ (r = half /\ q % 2 = 1)
             IN  (IF up THEN q + 1 ELSE q) * unit

\* a + b on floats
FloatAdd(a, b) == RoundToSignificand(a + b, SignificandBits)

\* the value a statement of record_operation computes when durations are floats
ComputedFloat(m, field, duration_ms) ==
    IF field \in {"total_duration_ms", "cache_hit_duration_ms", "cache_miss_duration_ms"}
    THEN FloatAdd(m[field], duration_ms)
    ELSE Computed(m, field, duration_ms)

RECURSIVE RunFloatStatements(_, _, _)
RunFloatStatements(m, statements, duration_ms) ==
    IF statements = << >> THEN m
    ELSE RunFloatStatements([m EXCEPT ![Head(statements)] =
                                          ComputedFloat(m, Head(statements), duration_ms)],
                            Tail(statements), duration_ms)

\* record_operation(duration_ms, cache_hit) with a float duration
record_operation_float(m, duration_ms, cache_hit) ==
    RunFloatStatements(m, RecordStatements(cache_hit), duration_ms)

\* ms[key].record_operation(duration_ms, cache_hit), ms being a dict of
\* metrics (DynamicRegistry's is a defaultdict of PerformanceMetrics("unknown"))
MetricsOf(ms, key) ==
    IF key \in DOMAIN ms THEN ms[key] ELSE PerformanceMetrics("unknown")

Recorded(ms, key, duration_ms, cache_hit) ==
    DictSet(ms, key, record_operation(MetricsOf(ms, key), duration_ms, cache_hit))

\* an outcome o of get, of the memoize wrapper or of select_strategy is a
\* cache hit: a cached value was returned
IsCacheHit(o) == o.invoked = {} /\ o.ret # None

(***************************************************************************)
(* DynamicRegistry.  An argument is a Python value: its type and its       *)
(* items; a call passes positional arguments and keyword arguments, the    *)
(* latter in the order the caller wrote them.                              *)
(***************************************************************************)
PyValue(type, items) == [type |-> type, items |-> items]

PyInt(n) == PyValue("int", <<n>>)

\* hash(value) succeeds: an int or a str hashes, a tuple hashes when all its
\* items do, a list, a set or a dict never
RECURSIVE Hashable(_)
Hashable(value) ==
    IF value.type \in {"int", "str"} THEN TRUE
    ELSE IF value.type = "tuple"
    THEN \A i \in 1..Len(value.items) : Hashable(value.items[i])
    ELSE FALSE

\* repr(value): the string spells out the items in the order the value
\* holds them (a set in its iteration order, a dict in its insertion order)
Repr(value) == PyValue("repr", <<value>>)

\* sorted(...): the positions left, in ascending order of their ranks
RECURSIVE SortedIndexes(_, _)
SortedIndexes(ranks, left) ==
    IF left = {} THEN << >>
    ELSE LET i == CHOOSE j \in left :
                    \A k \in left : ranks[j] < ranks[k] \/ (ranks[j] = ranks[k] /\ j <= k)
         IN  <<i>> \o SortedIndexes(ranks, left \ {i})

\* _normalize_value(value): a hashable value is kept; a list becomes the
\* tuple of its normalized items; a set (of ints) the sorted tuple of its
\* items; a dict (with int keys) the tuple of its normalized (key, value)
\* pairs sorted by key; any other unhashable value, such as a tuple with an
\* unhashable item, becomes its repr.  The items of a set are held in its
\* iteration order, the (key, value) pairs of a dict in insertion order.
RECURSIVE normalize_value(_)
normalize_value(value) ==
    IF Hashable(value) THEN value
    ELSE IF value.type = "list"
    THEN PyValue("tuple", [i \in 1..Len(value.items) |-> normalize_value(value.items[i])])
    ELSE IF value.type = "set"
    THEN LET order == SortedIndexes([i \in 1..Len(value.items) |-> value.items[i].items[1]],
                                    1..Len(value.items))
         IN  PyValue("tuple", [i \in 1..Len(order) |-> normalize_value(value.items[order[i]])])
    ELSE IF value.type = "dict"
    THEN LET order == SortedIndexes([i \in 1..Len(value.items) |-> value.items[i][1].items[1]],
                                    1..Len(value.items))
         IN  PyValue("tuple",
                     [i \in 1..Len(order) |->
                        PyValue("tuple", <<normalize_value(value.items[order[i]][1]),
                                           normalize_value(value.items[order[i]][2])>>)])
    ELSE Repr(value)

\* the order Python compares the keyword names in
KwRank == [x |-> 1, y |-> 2]

\* sorted(kwargs.items()), each value normalized
RECURSIVE SortedItems(_)
SortedItems(kwargs) ==
    IF kwargs = << >> THEN << >>
    ELSE LET i == CHOOSE j \in 1..Len(kwargs) :
                    \A k \in 1..Len(kwargs) : KwRank[kwargs[j][1]] <= KwRank[kwargs[k][1]]
             rest == [k \in 1..(Len(kwargs) - 1) |->
                        IF k < i THEN kwargs[k] ELSE kwargs[k + 1]]
         IN  <<<<kwargs[i][1], normalize_value(kwargs[i][2])>>>> \o SortedItems(rest)

normalized_args(args) == [i \in 1..Len(args) |-> normalize_value(args[i])]

\* _create_cache_key(key, args, kwargs)
create_cache_key(key, args, kwargs) ==
    <<key, normalized_args(args), SortedItems(kwargs)>>

\* a call's arguments
Arguments(args, kwargs) == [args |-> args, kwargs |-> kwargs]

\* the argument lists the calls are made with: f([1, 2]), f((1, 2)),
\* f(1, x=2)
ArgLists ==
    {Arguments(<<PyValue("list", <<PyInt(1), PyInt(2)>>)>>, << >>),
     Arguments(<<PyValue("tuple", <<PyInt(1), PyInt(2)>>)>>, << >>),
     Arguments(<<PyInt(1)>>, <<<<"x", PyInt(2)>>>>)}

\* what a factory or a function does when called: it returns a value
\* (None is one) or raises
Results == {"v1", None, "raise"}

FactoryNames == {"f"}
Factories == {"factory1", "factory2"}

\* register(key, factory)
DynamicRegistry_register(reg, key, factory) == DictSet(reg, key, factory)

\* register: if key not in self._metrics: self._metrics[key] = PerformanceMetrics(key)
DynamicRegistry_register_metrics(ms, key) ==
    IF key \in DOMAIN ms THEN ms ELSE DictSet(ms, key, PerformanceMetrics(key))

\* get records a hit, or a miss when the key is registered (also when the
\* factory raises); o is the outcome of the call
DynamicRegistry_get_records(reg, key, o) == IsCacheHit(o) \/ key \in DOMAIN reg

DynamicRegistry_get_metrics(ms, reg, key, o, duration_ms) ==
    IF DynamicRegistry_get_records(reg, key, o)
    THEN Recorded(ms, key, duration_ms, IsCacheHit(o))
    ELSE ms

\* a slip of get: the failure of the factory is cached as a None result
DynamicRegistry_get_caches_failure(reg, s, key, args, kwargs, did, t) ==
    LET cache_key == create_cache_key(key, args, kwargs)
        got == SmartCache_get(s, cache_key, t)
        cached_result == got.ret
    IN  IF cached_result # None
        THEN [cache |-> got.state, invoked |-> {}, ret |-> cached_result,
              raised |-> FALSE]
        ELSE IF key \notin DOMAIN reg
        THEN [cache |-> got.state, invoked |-> {}, ret |-> None, raised |-> FALSE]
        ELSE IF did = "raise"
        THEN [cache |-> SmartCache_put(got.state, cache_key, None, t),
              invoked |-> {reg[key]}, ret |-> None, raised |-> TRUE]
        ELSE [cache |-> SmartCache_put(got.state, cache_key, did, t),
              invoked |-> {reg[key]}, ret |-> did, raised |-> FALSE]

\* get(key, *args, **kwargs) at time t, the factory doing `did` if it is
\* called: the cache after the call, the factories invoked, the value
\* returned and whether the call raised
DynamicRegistry_get(reg, s, key, args, kwargs, did, t) ==
    LET cache_key == create_cache_key(key, args, kwargs)
        got == SmartCache_get(s, cache_key, t)
        cached_result == got.ret
    IN  IF cached_result # None
        THEN [cache |-> got.state, invoked |-> {}, ret |-> cached_result,
              raised |-> FALSE]
        ELSE IF key \notin DOMAIN reg
        THEN [cache |-> got.state, invoked |-> {}, ret |-> None, raised |-> FALSE]
        ELSE IF did = "raise"
        THEN [cache |-> got.state, invoked |-> {reg[key]}, ret |-> None,
              raised |-> TRUE]
        ELSE [cache |-> SmartCache_put(got.state, cache_key, did, t),
              invoked |-> {reg[key]}, ret |-> did, raised |-> FALSE]

\* the wrapper records a hit, or a miss when the function returned; o is the
\* outcome of the call
memoize_records(o) == ~o.raised

memoize_metrics(ms, o, duration_ms) ==
    IF memoize_records(o) THEN Recorded(ms, "func", duration_ms, IsCacheHit(o)) ELSE ms

\* select_strategy records every call; o is the outcome of the call
StrategyRegistry_select_metrics(ms, o, duration_ms) ==
    Recorded(ms, "strategy_selection", duration_ms, IsCacheHit(o))

(***************************************************************************)
(* memoize.  The wrapped function is pure: what it does depends on its     *)
(* arguments alone.                                                        *)
(***************************************************************************)
\* the functions that get wrapped: three that do the same for all
\* arguments, and one that tells the arguments apart
Functions ==
    {[a \in ArgLists |-> did] : did \in Results}
        \cup {[a \in ArgLists |->
                 IF a.kwargs # << >> THEN "v1"
                 ELSE IF a.args[1].type = "list" THEN None
                 ELSE "v2"]}

\* the wrapper's cache_key
memoize_cache_key(args, kwargs) == <<normalized_args(args), SortedItems(kwargs)>>

\* wrapper(*args, **kwargs) at time t around function f: the cache after the
\* call, the functions invoked, the value returned and whether the call raised
memoize_wrapper(f, s, args, kwargs, t) ==
    LET cache_key == memoize_cache_key(args, kwargs)
        got == SmartCache_get(s, cache_key, t)
        cached_result == got.ret
        result == f[Arguments(args, kwargs)]
    IN  IF cached_result # None
        THEN [cache |-> got.state, invoked |-> {}, ret |-> cached_result,
              raised |-> FALSE]
        ELSE IF result = "raise"
        THEN [cache |-> got.state, invoked |-> {"func"}, ret |-> None, raised |-> TRUE]
        ELSE [cache |-> SmartCache_put(got.state, cache_key, result, t),
              invoked |-> {"func"}, ret |-> result, raised |-> FALSE]

(***************************************************************************)
(* StrategyRegistry.  A strategy is its name, its priority and the         *)
(* contexts its can_handle accepts; in the registry's list it carries the  *)
(* number of the register call that added it.                              *)
(***************************************************************************)
PyStr(string) == PyValue("str", <<string>>)

\* the contexts strategies are selected for: 1, "1" and "x"
StrategyContexts == {PyInt(1), PyStr("1"), PyStr("x")}

\* str(context)
str(value) ==
    IF value.type = "str" THEN value.items[1] ELSE ToString(value.items[1])

\* _create_context_key(context): the digest of str(context), taken to differ
\* whenever the strings differ
create_context_key(context) == str(context)

StrategyPattern(name, priority, handles) ==
    [name |-> name, priority |-> priority, handles |-> handles]

Strategies ==
    {StrategyPattern("any", 1, StrategyContexts),
     StrategyPattern("strings", 1, {PyStr("1"), PyStr("x")}),
     StrategyPattern("ints", 2, {PyInt(1)}),
     StrategyPattern("x", 2, {PyStr("x")})}

\* SmartCache(max_size=128)
StrategyCacheSize == 128

\* a slip of sort: among equal priorities the later element comes first
RECURSIVE SortByPriority_unstable(_)
SortByPriority_unstable(list) ==
    IF list = << >> THEN << >>
    ELSE LET top == CHOOSE p \in {list[j].priority : j \in 1..Len(list)} :
                        \A j \in 1..Len(list) : list[j].priority <= p
             i == CHOOSE j \in 1..Len(list) :
                      /\ list[j].priority = top
                      /\ \A k \in (j + 1)..Len(list) : list[k].priority # top
             rest == [k \in 1..(Len(list) - 1) |->
                        IF k < i THEN list[k] ELSE list[k + 1]]
         IN  <<list[i]>> \o SortByPriority_unstable(rest)

\* list.sort(key=lambda s: s.priority, reverse=True): descending keys, equal
\* keys in the order they had
RECURSIVE SortByPriority(_)
SortByPriority(list) ==
    IF list = << >> THEN << >>
    ELSE LET top == CHOOSE p \in {list[j].priority : j \in 1..Len(list)} :
                        \A j \in 1..Len(list) : list[j].priority <= p
             i == CHOOSE j \in 1..Len(list) :
                      /\ list[j].priority = top
                      /\ \A k \in 1..(j - 1) : list[k].priority # top
             rest == [k \in 1..(Len(list) - 1) |->
                        IF k < i THEN list[k] ELSE list[k + 1]]
         IN  <<list[i]>> \o SortByPriority(rest)

\* register(strategy), the n-th register call
StrategyRegistry_register(list, strategy, n) ==
    SortByPriority(Append(list, [name |-> strategy.name,
                                  priority |-> strategy.priority,
                                  handles |-> strategy.handles,
                                  registered |-> n]))

\* a slip of select_strategy: the strategy found is not stored
StrategyRegistry_select_strategy_unstored(list, s, context, t) ==
    LET context_key == create_context_key(context)
        got == SmartCache_get(s, context_key, t)
        cached_strategy == got.ret
        able == {i \in 1..Len(list) : context \in list[i].handles}
    IN  IF cached_strategy # None
        THEN [cache |-> got.state, invoked |-> {}, ret |-> cached_strategy]
        ELSE IF able = {}
        THEN [cache |-> got.state,
              invoked |-> {list[j].name : j \in 1..Len(list)}, ret |-> None]
        ELSE LET i == CHOOSE j \in able : \A k \in able : j <= k
             IN  [cache |-> got.state,
                  invoked |-> {list[j].name : j \in 1..i}, ret |-> list[i].name]

\* select_strategy(context) at time t: the cache after the call, the
\* strategies whose can_handle was called and the strategy returned
StrategyRegistry_select_strategy(list, s, context, t) ==
    LET context_key == create_context_key(context)
        got == SmartCache_get(s, context_key, t)
        cached_strategy == got.ret
        able == {i \in 1..Len(list) : context \in list[i].handles}
    IN  IF cached_strategy # None
        THEN [cache |-> got.state, invoked |-> {}, ret |-> cached_strategy]
        ELSE IF able = {}
        THEN [cache |-> got.state,
              invoked |-> {list[j].name : j \in 1..Len(list)}, ret |-> None]
        ELSE LET i == CHOOSE j \in able : \A k \in able : j <= k
             IN  [cache |-> SmartCache_put(got.state, context_key, list[i].name, t),
                  invoked |-> {list[j].name : j \in 1..i}, ret |-> list[i].name]

(***************************************************************************)
(* validate_optimized.  A file is its path and the state of its content    *)
(* (size, modification time, digest).                                      *)
(***************************************************************************)
\* @memoize(cache_size=128, ttl_seconds=300)
MemoizeCacheSize == 128
MemoizeTTL == 300

\* SmartCache(max_size=cache_size, ttl_seconds=1800), cache_size=512
ResultCacheSize == 512
ResultCacheTTL == 1800

File(file_path, content) == [file_path |-> file_path, content |-> content]

\* one path, its file in two states
Files == {File("a.pdf", 1), File("a.pdf", 2)}

\* ValidationContext._generate_cache_key(): the digest of the path and of
\* the file's size, modification time and content, taken to differ whenever
\* these differ
generate_cache_key(file) == <<file.file_path, file.content>>

\* the map returned when the body of validate_optimized raised
EngineError ==
    [validation_error |-> ValidationOutcome("engine", ERROR, CRITICAL, TRUE)]

\* get(key) at time t returns a stored outcome map (which is not None)
Found(s, key, t) == key \in DOMAIN s.cache /\ ~Expired(s, key, t)

\* the truth value of an outcome map: it is not empty
Truthy(results) == DOMAIN results # {}

\* the body of validate_optimized from the cache check on, at time t, got
\* being what result_cache.get returned and o what the pipeline does when it
\* is executed: the graph and the result cache after it, the map returned
\* and the run of the pipeline
check_cache_and_execute(g, cache_key, got, o, t) ==
    IF got.found /\ Truthy(got.ret)
    THEN [graph |-> g, result_cache |-> got.state, ret |-> got.ret,
          remaining |-> {}, run |-> RunStart(NoOrder)]
    ELSE IF o.raised \/ o.run.exception
    THEN [graph |-> o.graph, result_cache |-> got.state, ret |-> EngineError,
          remaining |-> o.remaining, run |-> o.run]
    ELSE [graph |-> o.graph,
          result_cache |-> SmartCache_put(got.state, cache_key, o.run.results, t),
          ret |-> o.run.results, remaining |-> {}, run |-> o.run]

\* cache.get(key) at time t, with whether a value was found
Lookup(s, key, t) ==
    [state |-> SmartCache_get(s, key, t).state, ret |-> SmartCache_get(s, key, t).ret,
     found |-> Found(s, key, t)]

\* the body of validate_optimized(file_path) at time t
validate_optimized_body(g, ff, rc, file, beh, t) ==
    check_cache_and_execute(g, generate_cache_key(file),
                            Lookup(rc, generate_cache_key(file), t),
                            execute_validation_pipeline(g, ff, beh), t)

\* the memoize wrapper around validate_optimized, got being what cache.get
\* returned and o what the body does when it is called: the caches and the
\* graph after the call, the map returned, whether the call raised, and the
\* run of the pipeline
memoized_validate(g, rc, cache_key, got, o, t) ==
    IF got.found
    THEN [graph |-> g, memo |-> got.state, result_cache |-> rc, ret |-> got.ret,
          raised |-> FALSE, remaining |-> {}, run |-> RunStart(NoOrder)]
    ELSE [graph |-> o.graph, memo |-> SmartCache_put(got.state, cache_key, o.ret, t),
          result_cache |-> o.result_cache, ret |-> o.ret, raised |-> FALSE,
          remaining |-> o.remaining, run |-> o.run]

\* engine.validate_optimized(file_path) at time t, through the memoize
\* wrapper with cache memo
validate_optimized(g, ff, memo, rc, file, beh, t) ==
    memoized_validate(g, rc, memoize_cache_key(<<PyStr(file.file_path)>>, << >>),
                      Lookup(memo, memoize_cache_key(<<PyStr(file.file_path)>>, << >>), t),
                      validate_optimized_body(g, ff, rc, file, beh, t), t)

(***************************************************************************)
(* State.  sc is one SmartCache; now is the value of time.time().  The     *)
(* other variables record the history the properties speak about:         *)
(*   last      the latest call: its name, arguments, the value returned    *)
(*             and the keys it removed from the cache map                  *)
(*   info      per present key: time and value of its latest put, and the  *)
(*             number of get hits since that put                           *)
(*   useOrder  present keys by latest successful get or put (oldest first) *)
(*   putOrder  present keys by latest put (oldest first)                   *)
(*   insOrder  present keys by the put that made them present              *)
(* graph is a ValidationGraph (its own, or that of an engine with the      *)
(* fail_fast it was constructed with), adds counts the add_validator calls *)
(* made on it since, and glast records the latest call on it or on the     *)
(* engine; result_cache is the engine's result_cache.                      *)
(* registry is the _registry of a DynamicRegistry, strategies the          *)
(* _strategies of a StrategyRegistry and func the function that memoize    *)
(* wraps; the cache of each of them is sc, and olast records the latest    *)
(* call on them.                                                           *)
(***************************************************************************)
VARIABLES sc, now, last, info, useOrder, putOrder, insOrder, graph, glast, adds,
          fail_fast, result_cache, threads, registry, strategies, func, olast,
          metrics

cvars == <<sc, now, last, info, useOrder, putOrder, insOrder>>
gvars == <<graph, glast, adds, fail_fast, result_cache, threads>>
ovars == <<registry, strategies, func, olast, metrics>>
vars == <<sc, now, last, info, useOrder, putOrder, insOrder, graph, glast, adds,
          fail_fast, result_cache, threads, registry, strategies, func, metrics,
          olast>>

Present(s) == DOMAIN s.cache

Call(op, key, value, ret, had, removed) ==
    [op |-> op, key |-> key, value |-> value, ret |-> ret,
     had |-> had, removed |-> removed]

\* a history sequence keeps only the keys still present
Keep(seq, s) == SelectSeq(seq, LAMBDA x : x \in Present(s))

Touch(seq, key) == Append(SeqRemove(seq, key), key)

\* the orders are recorded for the policies whose properties read them
TracksUse(s) == s.policy = LRU
TracksPut(s) == s.policy \in {LFU, FIFO}

NoCall == Call("init", None, None, None, FALSE, {})

InitHistory ==
    /\ now = 0
    /\ last = NoCall
    /\ info = << >>
    /\ useOrder = << >>
    /\ putOrder = << >>
    /\ insOrder = << >>

\* the latest call on the graph: its name and arguments, and what it did
GraphCall(op, validator, ff, beh, o) ==
    [op |-> op, validator |-> validator, fail_fast |-> ff, beh |-> beh,
     raised |-> o.raised, remaining |-> o.remaining, run |-> o.run]

NoRun == [raised |-> FALSE, remaining |-> {}, run |-> RunStart(NoOrder)]

NoValidator == Validator(None, {}, 0)

\* the latest call on a registry, a memoized function or a strategy registry
\* (its name and arguments, the cache key it built, the factories, functions
\* or can_handle methods it invoked, what the invoked one did, and what the
\* call returned or whether it raised)
ObjectCall(op, name, args, key, invoked, did, ret, raised) ==
    [op |-> op, name |-> name, args |-> args, key |-> key, invoked |-> invoked,
     did |-> did, ret |-> ret, raised |-> raised]

\* a call that builds no cache key records the empty tuple as its key
NoKey == << >>

NoObjectCall == ObjectCall("init", None, << >>, NoKey, {}, None, None, FALSE)

\* no registry, no strategy registry and no memoized function is in use
InitObjects ==
    /\ registry = << >>
    /\ strategies = << >>
    /\ func = << >>
    /\ olast = NoObjectCall
    /\ metrics = << >>

\* graph = ValidationGraph()
InitGraph ==
    /\ graph = ValidationGraph_init
    /\ glast = GraphCall("init", NoValidator, FALSE, << >>, NoRun)
    /\ adds = 0
    /\ fail_fast = TRUE
    /\ result_cache = << >>
    /\ threads = << >>

InitCache ==
    /\ sc \in {SmartCache_init(m, p, t) : m \in Sizes, p \in CachePolicy, t \in TTLs}
    /\ InitHistory
    /\ InitGraph
    /\ InitObjects

InitLFU ==
    /\ sc \in {SmartCache_init(m, LFU, t) : m \in Sizes, t \in TTLs}
    /\ InitHistory
    /\ InitGraph
    /\ InitObjects

\* cache.put(key, value); pushes bounds the LFU heap's insertion counter
Put(key, value, pushes) ==
    /\ UNCHANGED <<gvars, ovars>>
    /\ sc.policy = LFU => sc.lfu_insertion_counter < pushes
    /\ sc' = SmartCache_put(sc, key, value, now)
    /\ now' = now
    /\ last' = Call("put", key, value, None, key \in Present(sc),
                    Present(sc) \ Present(sc'))
    /\ info' = [k \in Present(sc') |->
                  IF k = key THEN [putTime |-> now, putVal |-> value, hits |-> 0]
                  ELSE info[k]]
    /\ useOrder' = IF TracksUse(sc) THEN Keep(Touch(useOrder, key), sc') ELSE << >>
    /\ putOrder' = IF TracksPut(sc) THEN Keep(Touch(putOrder, key), sc') ELSE << >>
    /\ insOrder' = IF TracksPut(sc)
                   THEN Keep(IF key \in Present(sc) THEN insOrder
                             ELSE Touch(insOrder, key), sc')
                   ELSE << >>

\* cache.get(key)
Get(key, pushes) ==
    LET r == SmartCache_get(sc, key, now)
        hit == r.ret # None
    IN  /\ UNCHANGED <<gvars, ovars>>
        /\ hit => sc.cache[key].access_count < MaxHits
        /\ (sc.policy = LFU /\ hit) => sc.lfu_insertion_counter < pushes
        /\ sc' = r.state
        /\ now' = now
        /\ last' = Call("get", key, None, r.ret, key \in Present(sc),
                        Present(sc) \ Present(sc'))
        /\ info' = [k \in Present(sc') |->
                      IF k = key /\ hit THEN [info[k] EXCEPT !.hits = @ + 1]
                      ELSE info[k]]
        /\ useOrder' = IF TracksUse(sc)
                       THEN Keep(IF hit THEN Touch(useOrder, key) ELSE useOrder, sc')
                       ELSE << >>
        /\ putOrder' = Keep(putOrder, sc')
        /\ insOrder' = Keep(insOrder, sc')

\* cache.clear()
Clear ==
    /\ UNCHANGED <<gvars, ovars>>
    /\ sc' = SmartCache_clear(sc)
    /\ now' = now
    /\ last' = Call("clear", None, None, None, FALSE, Present(sc))
    /\ info' = << >>
    /\ useOrder' = << >>
    /\ putOrder' = << >>
    /\ insOrder' = << >>

\* time passes between calls (the cache reads the clock's value only to
\* decide expiry, so the clock is left alone when there is no TTL)
Tick ==
    /\ UNCHANGED <<gvars, ovars>>
    /\ sc.ttl_seconds # 0
    /\ now < MaxTime
    /\ now' = now + 1
    /\ last' = Call("tick", None, None, None, FALSE, {})
    /\ UNCHANGED <<sc, info, useOrder, putOrder, insOrder>>

NextCache ==
    \/ \E key \in Keys, value \in Values : Put(key, value, MaxPushes)
    \/ \E key \in Keys : Get(key, MaxPushes)
    \/ Clear
    \/ Tick

NextLFU ==
    \/ \E key \in Keys, value \in Values : Put(key, value, MaxCounter)
    \/ \E key \in Keys : Get(key, MaxCounter)
    \/ Clear
    \/ Tick

SpecCache == InitCache /\ [][NextCache]_vars

SpecLFU == InitLFU /\ [][NextLFU]_vars


(***************************************************************************)
(* Threads calling get, put and clear on one SmartCache.  Each method runs *)
(* inside `with self._lock`; threads.lock names the holder of the lock.    *)
(* Inside the block a step is one statement or one branch.  before, t,     *)
(* seq, expected and overlapped are history: the cache when the thread     *)
(* took the lock, the time its call read, the cache that the calls         *)
(* returned so far give when they run one after the other in the order     *)
(* they returned, what the call returns in that run, and whether some      *)
(* thread waited for the lock while another changed the cache.             *)
(***************************************************************************)
ThreadKeys == {"a", "b"}

CacheThreadIdle ==
    [pc |-> "idle", op |-> None, key |-> None, value |-> None, t |-> 0,
     new_count |-> 0, ret |-> None, expected |-> None]

InitCacheThreads ==
    /\ sc \in {SmartCache_init(m, p, t) : m \in Sizes, p \in CachePolicy, t \in TTLs}
    /\ InitHistory
    /\ graph = ValidationGraph_init
    /\ glast = GraphCall("init", NoValidator, FALSE, << >>, NoRun)
    /\ adds = 0
    /\ fail_fast = TRUE
    /\ result_cache = << >>
    /\ threads = [lock |-> None, calls |-> 0, seq |-> sc, overlapped |-> FALSE,
                  of |-> [tid \in Tids |-> CacheThreadIdle]]
    /\ InitObjects

\* a slip of the methods: the block is entered without the lock
CanAcquire_unguarded(lock, tid) == TRUE

\* with self._lock, an RLock: free, or held by the thread itself
CanAcquire(lock, tid) == lock \in {None, tid}

\* a thread calls get(key), put(key, value) or clear() and reaches the lock
CacheCallBegins(tid, op, key, value) ==
    /\ threads.of[tid].pc \in {"idle", "done"}
    /\ threads.calls < MaxCacheCalls
    /\ threads' = [threads EXCEPT
         !.calls = @ + 1,
         !.of[tid] = [CacheThreadIdle EXCEPT !.pc = "lock", !.op = op,
                                             !.key = key, !.value = value]]
    /\ UNCHANGED <<graph, glast, adds, fail_fast, result_cache, cvars, ovars>>

\* the thread enters the block
CacheLockTaken(tid) ==
    /\ threads.of[tid].pc = "lock"
    /\ CanAcquire(threads.lock, tid)
    /\ threads' = [threads EXCEPT !.lock = tid,
                                  !.of[tid].pc = threads.of[tid].op]
    /\ UNCHANGED <<graph, glast, adds, fail_fast, result_cache, cvars, ovars>>

\* another thread stands at the lock
Waiting(tid) == \E other \in Tids \ {tid} : threads.of[other].pc = "lock"

\* what a step inside the block leaves of the thread and the history
Inside(tid, pc, t, ret) ==
    [threads EXCEPT !.of[tid].pc = pc, !.of[tid].t = t, !.of[tid].ret = ret,
                    !.overlapped = @ \/ (Waiting(tid) /\ sc' # sc)]

\* put: if len(self._cache) >= self.max_size and key not in self._cache:
\*          self._evict_one()
PutEvicts(tid) ==
    LET c == threads.of[tid]
    IN  /\ c.pc = "put"
        /\ sc' = IF NeedsEviction(sc, c.key) THEN SmartCache_evict_one(sc) ELSE sc
        /\ threads' = Inside(tid, "put_store", c.t, None)
        /\ UNCHANGED <<graph, glast, adds, fail_fast, result_cache, now, last, info,
                       useOrder, putOrder, insOrder, ovars>>

\* put: self._cache[key] = CacheEntry(value)
PutStores(tid) ==
    LET c == threads.of[tid]
    IN  /\ c.pc = "put_store"
        /\ sc' = [sc EXCEPT !.cache = DictSet(@, c.key, CacheEntry(c.value, now))]
        /\ threads' = Inside(tid, "put_track", now, None)
        /\ UNCHANGED <<graph, glast, adds, fail_fast, result_cache, now, last, info,
                       useOrder, putOrder, insOrder, ovars>>

\* put: the auxiliary structure of the policy
PutTracks(tid) ==
    LET c == threads.of[tid]
    IN  /\ c.pc = "put_track"
        /\ sc' = CASE sc.policy = LRU ->
                        [sc EXCEPT !.access_order = Append(SeqRemove(@, c.key), c.key)]
                   [] sc.policy = LFU ->
                        [sc EXCEPT
                           !.lfu_heap = @ \cup {<<0, sc.lfu_insertion_counter, c.key>>},
                           !.lfu_insertion_counter = @ + 1]
                   [] sc.policy = FIFO ->
                        [sc EXCEPT !.fifo_order = Append(SeqRemove(@, c.key), c.key)]
                   [] OTHER -> sc
        /\ threads' = Inside(tid, "exit", c.t, None)
        /\ UNCHANGED <<graph, glast, adds, fail_fast, result_cache, now, last, info,
                       useOrder, putOrder, insOrder, ovars>>

\* get: entry = self._cache.get(key); None is returned when there is none or
\* it has expired (and is removed); until the return ret holds the entry
GetFindsEntry(tid) ==
    LET c == threads.of[tid]
        missing == c.key \notin DOMAIN sc.cache
        expired == ~missing /\ Expired(sc, c.key, now)
    IN  /\ c.pc = "get"
        /\ sc' = IF expired THEN SmartCache_remove_key(sc, c.key) ELSE sc
        /\ threads' = Inside(tid,
                             IF missing \/ expired THEN "exit"
                             ELSE IF sc.policy = LRU THEN "get_track"
                             ELSE "get_access",
                             now,
                             IF missing \/ expired THEN None ELSE sc.cache[c.key])
        /\ UNCHANGED <<graph, glast, adds, fail_fast, result_cache, now, last, info,
                       useOrder, putOrder, insOrder, ovars>>

\* get: the auxiliary structure of the policy (LRU before entry.access(),
\* LFU after it)
GetTracks(tid) ==
    LET c == threads.of[tid]
    IN  /\ c.pc = "get_track"
        /\ sc' = IF sc.policy = LRU
                 THEN [sc EXCEPT !.access_order = Append(SeqRemove(@, c.key), c.key)]
                 ELSE [sc EXCEPT
                         !.lfu_stale_keys = @ \cup {c.key},
                         !.lfu_heap = @ \cup {<<c.new_count, sc.lfu_insertion_counter,
                                                c.key>>},
                         !.lfu_insertion_counter = @ + 1]
        /\ threads' = Inside(tid, IF sc.policy = LRU THEN "get_access" ELSE "exit",
                             c.t, IF sc.policy = LRU THEN c.ret ELSE c.ret.value)
        /\ UNCHANGED <<graph, glast, adds, fail_fast, result_cache, now, last, info,
                       useOrder, putOrder, insOrder, ovars>>

\* get: value = entry.access(), new_count = entry.access_count; the entry is
\* the object found at the start, whether or not it is still in the dict
GetAccesses(tid) ==
    LET c == threads.of[tid]
        entry == c.ret
        held == c.key \in DOMAIN sc.cache /\ sc.cache[c.key] = entry
    IN  /\ c.pc = "get_access"
        /\ sc' = IF held THEN EntryAccess(sc, c.key) ELSE sc
        /\ threads' = [Inside(tid, IF sc.policy = LFU THEN "get_track" ELSE "exit",
                              c.t, IF sc.policy = LFU THEN entry ELSE entry.value)
                         EXCEPT !.of[tid].new_count = entry.access_count + 1]
        /\ UNCHANGED <<graph, glast, adds, fail_fast, result_cache, now, last, info,
                       useOrder, putOrder, insOrder, ovars>>

\* clear: self._cache.clear()
ClearEmptiesCache(tid) ==
    /\ threads.of[tid].pc = "clear"
    /\ sc' = [sc EXCEPT !.cache = << >>]
    /\ threads' = Inside(tid, "clear_rest", 0, None)
    /\ UNCHANGED <<graph, glast, adds, fail_fast, result_cache, now, last, info,
                   useOrder, putOrder, insOrder, ovars>>

\* clear: the auxiliary structures
ClearEmptiesRest(tid) ==
    /\ threads.of[tid].pc = "clear_rest"
    /\ sc' = [sc EXCEPT !.access_order = << >>, !.lfu_heap = {},
                        !.lfu_stale_keys = {}, !.fifo_order = << >>,
                        !.lfu_insertion_counter = 0]
    /\ threads' = Inside(tid, "exit", 0, None)
    /\ UNCHANGED <<graph, glast, adds, fail_fast, result_cache, now, last, info,
                   useOrder, putOrder, insOrder, ovars>>

\* the call run alone on the cache s at the time t
RunAlone(c, s) ==
    CASE c.op = "put" -> [state |-> SmartCache_put(s, c.key, c.value, c.t), ret |-> None]
      [] c.op = "get" -> SmartCache_get(s, c.key, c.t)
      [] c.op = "clear" -> [state |-> SmartCache_clear(s), ret |-> None]

\* the block is left and the call returns
CacheCallReturns(tid) ==
    LET c == threads.of[tid]
        o == RunAlone(c, threads.seq)
    IN  /\ c.pc = "exit"
        /\ threads' = [threads EXCEPT
             !.lock = IF @ = tid THEN None ELSE @,
             !.seq = o.state,
             !.of[tid].pc = "done",
             !.of[tid].expected = o.ret]
        /\ UNCHANGED <<graph, glast, adds, fail_fast, result_cache, cvars, ovars>>

NextCacheThreads ==
    \/ \E tid \in Tids, key \in ThreadKeys, value \in Values :
          CacheCallBegins(tid, "put", key, value)
    \/ \E tid \in Tids, key \in ThreadKeys : CacheCallBegins(tid, "get", key, None)
    \/ \E tid \in Tids : CacheCallBegins(tid, "clear", None, None)
    \/ \E tid \in Tids : CacheLockTaken(tid)
    \/ \E tid \in Tids : PutEvicts(tid)
    \/ \E tid \in Tids : PutStores(tid)
    \/ \E tid \in Tids : PutTracks(tid)
    \/ \E tid \in Tids : GetFindsEntry(tid)
    \/ \E tid \in Tids : GetTracks(tid)
    \/ \E tid \in Tids : GetAccesses(tid)
    \/ \E tid \in Tids : ClearEmptiesCache(tid)
    \/ \E tid \in Tids : ClearEmptiesRest(tid)
    \/ \E tid \in Tids : CacheCallReturns(tid)
    \/ Tick

SpecCacheThreads == InitCacheThreads /\ [][NextCacheThreads]_vars

(***************************************************************************)
(* Calls on the graph and the engine.                                      *)
(***************************************************************************)
\* a ValidationGraph of its own, next to an idle cache
InitGraphAlone ==
    /\ sc = SmartCache_init(1, LRU, 0)
    /\ InitHistory
    /\ InitGraph
    /\ InitObjects

\* self.graph after DynamicValidationEngine.__init__: the default validation
\* suite is registered
DefaultSuite == <<FileExtensionValidator, FileSizeValidator, PDFHeaderValidator,
                  PDFStructureValidator>>

RECURSIVE RegisterAll(_, _)
RegisterAll(g, suite) ==
    IF suite = << >> THEN g
    ELSE RegisterAll(ValidationGraph_add_validator(g, Head(suite)), Tail(suite))

\* DynamicValidationEngine(fail_fast=...); sc is the cache of the memoize
\* around its validate_optimized
InitEngine ==
    /\ sc = SmartCache_init(MemoizeCacheSize, LRU, MemoizeTTL)
    /\ result_cache = SmartCache_init(ResultCacheSize, LRU, ResultCacheTTL)
    /\ InitHistory
    /\ graph = RegisterAll(ValidationGraph_init, DefaultSuite)
    /\ glast = GraphCall("init", NoValidator, FALSE, << >>, NoRun)
    /\ adds = 0
    /\ fail_fast \in BOOLEAN
    /\ threads = << >>
    /\ InitObjects

\* A run changes the graph only as get_execution_order does (it may cache
\* the order), and glast is history: every graph a run can leave is reached
\* by GetExecutionOrder too.  So the calls after a run are not explored.
Idle == glast.op # "run"

\* add_validator(validator), at most limit times
AddValidator(validator, limit) ==
    /\ Idle
    /\ adds < limit
    /\ graph' = ValidationGraph_add_validator(graph, validator)
    /\ glast' = GraphCall("add", validator, FALSE, << >>, NoRun)
    /\ adds' = adds + 1
    /\ UNCHANGED <<fail_fast, result_cache, threads, cvars, ovars>>

\* graph.get_execution_order()
GetExecutionOrder ==
    LET o == ValidationGraph_get_execution_order(graph)
    IN  /\ Idle
        /\ graph' = o.graph
        /\ glast' = GraphCall("order", NoValidator, FALSE, << >>,
                              [raised |-> o.raised, remaining |-> o.remaining,
                               run |-> RunStart(o.ret)])
        /\ UNCHANGED <<adds, fail_fast, result_cache, threads, cvars, ovars>>

\* engine._execute_validation_pipeline(context), the validators behaving as beh
ExecutePipeline(beh) ==
    LET o == execute_validation_pipeline(graph, fail_fast, beh)
    IN  /\ Idle
        /\ graph' = o.graph
        /\ glast' = GraphCall("run", NoValidator, fail_fast, beh, o)
        /\ UNCHANGED <<adds, fail_fast, result_cache, threads, cvars, ovars>>

\* the validators a run can reach: those of the order, when there is one
Reachable(g) ==
    LET o == ValidationGraph_get_execution_order(g)
    IN  IF o.raised THEN {} ELSE SeqSet(o.ret)

\* what the validators of S can do with one context: one behaviour each
RECURSIVE BehavioursOfAll(_, _)
BehavioursOfAll(g, S) ==
    IF S = {} THEN {<< >>}
    ELSE LET n == CHOOSE x \in S : TRUE
         IN  {DictSet(beh, n, b) : beh \in BehavioursOfAll(g, S \ {n}),
                                   b \in BehavioursOf(g.validators[n])}

\* what the validators a run can reach can do
RunBehaviours(g) == BehavioursOfAll(g, Reachable(g))

\* a hit raises the entry's access count, which MaxHits bounds
HitAllowed(s, cache_key, t) ==
    (cache_key \in DOMAIN s.cache /\ ~Expired(s, cache_key, t))
        => s.cache[cache_key].access_count < MaxHits

\* the memoize wrapper of validate_optimized finds a result for the path
Memoized(file) ==
    LET cache_key == memoize_cache_key(<<PyStr(file.file_path)>>, << >>)
    IN  Found(sc, cache_key, now)

\* engine.validate_optimized(file_path), the file being in state `file` and
\* the validators behaving as beh
Validated(file, beh, o) ==
    /\ sc' = o.memo
    /\ result_cache' = o.result_cache
    /\ graph' = o.graph
    /\ glast' = [op |-> "validate", validator |-> NoValidator,
                 fail_fast |-> fail_fast, beh |-> beh, raised |-> o.raised,
                 remaining |-> o.remaining, run |-> o.run, file |-> file,
                 ret |-> o.ret]
    /\ UNCHANGED <<adds, fail_fast, threads, now, last, info, useOrder, putOrder,
                   insOrder, ovars>>

ValidateOptimized(file, beh) ==
    /\ HitAllowed(sc, memoize_cache_key(<<PyStr(file.file_path)>>, << >>), now)
    /\ Validated(file, beh,
                 validate_optimized(graph, fail_fast, sc, result_cache, file, beh, now))

\* the engine: validators are added and files are validated; the validators
\* are not asked when the wrapper answers from its cache
NextValidate ==
    \/ \E validator \in EngineValidators : AddValidator(validator, MaxEngineAdds)
    \/ \E file \in Files : Memoized(file) /\ ValidateOptimized(file, << >>)
    \/ \E file \in Files :
          ~Memoized(file) /\ \E beh \in RunBehaviours(graph) : ValidateOptimized(file, beh)

SpecValidate == InitEngine /\ [][NextValidate]_vars

\* the graph alone: validators are added and ordered
NextGraph ==
    \/ \E validator \in Validators : AddValidator(validator, MaxAdds)
    \/ GetExecutionOrder

SpecGraph == InitGraphAlone /\ [][NextGraph]_vars

\* the engine: validators are added, ordered and run
NextPipeline ==
    \/ \E validator \in EngineValidators : AddValidator(validator, MaxCustom)
    \/ GetExecutionOrder
    \/ Idle /\ \E beh \in RunBehaviours(graph) : ExecutePipeline(beh)

SpecPipeline == InitEngine /\ [][NextPipeline]_vars


(***************************************************************************)
(* The pipeline on an engine to which validators of a higher priority than *)
(* the default validators' are added as well: such a validator is ordered  *)
(* before the default validators that become available with it.            *)
(***************************************************************************)
PriorityValidators ==
    EngineValidators
        \cup {Validator("custom", d, 60) : d \in SUBSET {"extension", "pdf_structure"}}

NextPriorityPipeline ==
    \/ \E validator \in PriorityValidators : AddValidator(validator, MaxCustom)
    \/ Idle /\ \E beh \in RunBehaviours(graph) : ExecutePipeline(beh)

SpecPriorityPipeline == InitEngine /\ [][NextPriorityPipeline]_vars


(***************************************************************************)
(* engine.analyze_dependency_impact() on an engine to which validators are *)
(* added.  A level is the set of the names it lists (their order within a  *)
(* level is the iteration order of a Python set).  olast records the       *)
(* levels returned.                                                        *)
(***************************************************************************)
\* the while loop of _calculate_execution_levels
RECURSIVE LevelsLoop(_, _, _, _)
LevelsLoop(g, remaining, completed, levels) ==
    IF remaining = {} THEN levels
    ELSE LET current_level ==
                 {validator_name \in remaining :
                    ValidationGraph_can_execute(g, validator_name, completed)}
         IN  IF current_level = {} THEN levels
             ELSE LevelsLoop(g, remaining \ current_level, completed \cup current_level,
                             Append(levels, current_level))

calculate_execution_levels(g) == LevelsLoop(g, DOMAIN g.validators, {}, << >>)

\* analyze_dependency_impact(): the graph after the call, whether
\* get_execution_order raised ValueError, the order and the levels returned
analyze_dependency_impact(g) ==
    LET o == ValidationGraph_get_execution_order(g)
    IN  IF o.raised
        THEN [graph |-> o.graph, raised |-> TRUE, remaining |-> o.remaining,
              execution_order |-> NoOrder, execution_levels |-> << >>]
        ELSE [graph |-> o.graph, raised |-> FALSE, remaining |-> {},
              execution_order |-> o.ret,
              execution_levels |-> calculate_execution_levels(o.graph)]

\* engine.analyze_dependency_impact()
AnalyzeDependencyImpact ==
    LET o == analyze_dependency_impact(graph)
    IN  /\ Idle
        /\ graph' = o.graph
        /\ glast' = GraphCall("analyze", NoValidator, FALSE, << >>,
                              [raised |-> o.raised, remaining |-> o.remaining,
                               run |-> RunStart(o.execution_order)])
        /\ olast' = ObjectCall("analyze", None, << >>, NoKey, {}, None,
                               o.execution_levels, o.raised)
        /\ UNCHANGED <<adds, fail_fast, result_cache, threads, cvars, registry,
                       strategies, func, metrics>>

NextLevels ==
    \/ \E validator \in EngineValidators : AddValidator(validator, MaxCustom)
    \/ AnalyzeDependencyImpact

SpecLevels == InitEngine /\ [][NextLevels]_vars


(***************************************************************************)
(* record_operation calls on one PerformanceMetrics with float durations.  *)
(***************************************************************************)
\* the durations: the floats of one to seven units
FloatDurations == 1..7

\* metrics = PerformanceMetrics("op")
InitMetrics ==
    /\ sc = SmartCache_init(1, LRU, 0)
    /\ InitHistory
    /\ InitGraph
    /\ registry = << >>
    /\ strategies = << >>
    /\ func = << >>
    /\ olast = NoObjectCall
    /\ metrics = [name \in {"op"} |-> PerformanceMetrics(name)]

\* metrics.record_operation(duration_ms, cache_hit)
RecordOperation(duration_ms, cache_hit) ==
    /\ metrics["op"].total_calls < MaxCalls
    /\ metrics' = [metrics EXCEPT
                     !["op"] = record_operation_float(@, duration_ms, cache_hit)]
    /\ olast' = ObjectCall("record_operation", "op", << >>, NoKey, {}, None, None, FALSE)
    /\ UNCHANGED <<cvars, gvars, registry, strategies, func>>

NextMetrics ==
    \E duration_ms \in FloatDurations, cache_hit \in BOOLEAN :
        RecordOperation(duration_ms, cache_hit)

SpecMetrics == InitMetrics /\ [][NextMetrics]_vars

(***************************************************************************)
(* Two threads on one ValidationGraph, which has no lock: the adder calls  *)
(* add_validator and the getter calls get_execution_order, and the         *)
(* interpreter may switch between them after any statement.  threads holds *)
(* where each of them is and its local variables.  A step is one statement *)
(* or one run of statements, so every behaviour here is one the threads    *)
(* can show.  before and views are history: the graph when the adder's     *)
(* call began, and the graphs between two add_validator calls that existed *)
(* while the getter's call ran.                                            *)
(***************************************************************************)
ThreadNames == {"extension", "file_size"}
ThreadValidators ==
    {Validator(n, d, p) : n \in ThreadNames, d \in SUBSET ThreadNames, p \in {50}}

\* a graph without its cached order
View(g) == [g EXCEPT !.execution_order = NoOrder]

AdderIdle == [pc |-> "idle", validator |-> NoValidator, deps |-> {}, dep |-> None,
              before |-> View(ValidationGraph_init)]

GetterIdle ==
    [pc |-> "idle", size |-> 0, keys |-> {}, in_degree |-> [n \in Names |-> 0],
     available |-> << >>, execution_order |-> << >>, ret |-> NoOrder,
     raised |-> None, views |-> {}]

InitGraphThreads ==
    /\ sc = SmartCache_init(1, LRU, 0)
    /\ InitHistory
    /\ graph = ValidationGraph_init
    /\ glast = GraphCall("init", NoValidator, FALSE, << >>, NoRun)
    /\ adds = 0
    /\ fail_fast = TRUE
    /\ result_cache = << >>
    /\ threads = [adder |-> AdderIdle, getter |-> GetterIdle]
    /\ InitObjects

\* the getter is inside a call
Getting == threads.getter.pc \notin {"idle", "done"}

\* the call begins; self.validators[validator.name] = validator
AdderSetValidator(validator) ==
    /\ threads.adder.pc = "idle"
    /\ adds < MaxAdds
    /\ adds' = adds + 1
    /\ graph' = [graph EXCEPT !.validators = DictSet(@, validator.name, validator)]
    /\ threads' = [threads EXCEPT
         !.adder = [pc |-> IF validator.dependencies = {} THEN "clear"
                           ELSE "dependencies",
                    validator |-> validator, deps |-> validator.dependencies,
                    dep |-> None, before |-> View(graph)],
         !.getter.views = IF Getting
                          THEN @ \cup {View(ValidationGraph_add_validator(graph, validator))}
                          ELSE @]
    /\ UNCHANGED <<glast, fail_fast, result_cache, cvars, ovars>>

\* for dep in validator.dependencies: self.dependencies[validator.name].add(dep)
AdderAddDependency ==
    /\ threads.adder.pc = "dependencies"
    /\ \E dep \in threads.adder.deps :
          /\ graph' = [graph EXCEPT
                         !.dependencies[threads.adder.validator.name] = @ \cup {dep}]
          /\ threads' = [threads EXCEPT !.adder.pc = "dependents", !.adder.dep = dep]
    /\ UNCHANGED <<glast, adds, fail_fast, result_cache, cvars, ovars>>

\* self.dependents[dep].add(validator.name)
AdderAddDependent ==
    /\ threads.adder.pc = "dependents"
    /\ graph' = [graph EXCEPT
                   !.dependents[threads.adder.dep] = @ \cup {threads.adder.validator.name}]
    /\ threads' = [threads EXCEPT
         !.adder.deps = @ \ {threads.adder.dep},
         !.adder.dep = None,
         !.adder.pc = IF threads.adder.deps = {threads.adder.dep} THEN "clear"
                      ELSE "dependencies"]
    /\ UNCHANGED <<glast, adds, fail_fast, result_cache, cvars, ovars>>

\* self._execution_order = None; the call returns
AdderClearOrder ==
    /\ threads.adder.pc = "clear"
    /\ graph' = [graph EXCEPT !.execution_order = NoOrder]
    /\ threads' = [threads EXCEPT
         !.adder = [AdderIdle EXCEPT !.before = View(graph)]]
    /\ UNCHANGED <<glast, adds, fail_fast, result_cache, cvars, ovars>>

\* the graphs between two add_validator calls that exist now
ViewsNow ==
    IF threads.adder.pc = "idle" THEN {View(graph)}
    ELSE {threads.adder.before,
          View(ValidationGraph_add_validator(threads.adder.before,
                                             threads.adder.validator))}

\* the call begins; if self._execution_order is not None: return it;
\* otherwise the iteration over self.validators begins
GetterCheckCached ==
    /\ threads.getter.pc \in {"idle", "done"}
    /\ threads' = [threads EXCEPT
         !.getter = IF graph.execution_order # NoOrder
                    THEN [GetterIdle EXCEPT !.pc = "done",
                                            !.ret = graph.execution_order,
                                            !.views = ViewsNow]
                    ELSE [GetterIdle EXCEPT !.pc = "in_degree",
                                            !.size = Cardinality(DOMAIN graph.validators),
                                            !.views = ViewsNow]]
    /\ UNCHANGED <<graph, glast, adds, fail_fast, result_cache, cvars, ovars>>

\* for validator_name in self.validators: in_degree[validator_name] = ...;
\* the dict iterator raises RuntimeError when the dict changed its size
GetterInDegree ==
    /\ threads.getter.pc = "in_degree"
    /\ threads' = [threads EXCEPT
         !.getter = IF Cardinality(DOMAIN graph.validators) # @.size
                    THEN [@ EXCEPT !.pc = "done", !.raised = "RuntimeError"]
                    ELSE [@ EXCEPT
                            !.pc = "available",
                            !.keys = DOMAIN graph.validators,
                            !.in_degree = [n \in Names |->
                                IF n \in DOMAIN graph.validators
                                THEN Cardinality(graph.dependencies[n]) ELSE 0]]]
    /\ UNCHANGED <<graph, glast, adds, fail_fast, result_cache, cvars, ovars>>

\* available = the (priority, name) of the keys of degree 0, sorted in reverse
GetterAvailable ==
    /\ threads.getter.pc = "available"
    /\ threads' = [threads EXCEPT
         !.getter.pc = "loop",
         !.getter.available =
             SortReverse({<<graph.validators[n].priority, n>> :
                            n \in {m \in threads.getter.keys :
                                     threads.getter.in_degree[m] = 0}})]
    /\ UNCHANGED <<graph, glast, adds, fail_fast, result_cache, cvars, ovars>>

\* one round of the while loop; in_degree is a defaultdict(int)
KahnStep(g, t) ==
    LET current == Head(t.available)[2]
        lowered == [n \in Names |->
                      IF n \in g.dependents[current]
                      THEN t.in_degree[n] - 1 ELSE t.in_degree[n]]
        freed == {d \in g.dependents[current] : lowered[d] = 0}
        added == {<<g.validators[d].priority, d>> : d \in freed}
    IN  [t EXCEPT !.available = SortReverse(SeqSet(Tail(t.available)) \cup added),
                  !.in_degree = lowered,
                  !.execution_order = Append(@, current)]

\* while available: ...; after the loop, the check for cycles
GetterLoop ==
    /\ threads.getter.pc = "loop"
    /\ threads' = [threads EXCEPT
         !.getter = IF @.available # << >> THEN KahnStep(graph, @)
                    ELSE IF Len(@.execution_order) # Cardinality(DOMAIN graph.validators)
                    THEN [@ EXCEPT !.pc = "done", !.raised = "ValueError"]
                    ELSE [@ EXCEPT !.pc = "store"]]
    /\ UNCHANGED <<graph, glast, adds, fail_fast, result_cache, cvars, ovars>>

\* self._execution_order = execution_order; return execution_order
GetterStoreOrder ==
    /\ threads.getter.pc = "store"
    /\ graph' = [graph EXCEPT !.execution_order = threads.getter.execution_order]
    /\ threads' = [threads EXCEPT !.getter.pc = "done",
                                  !.getter.ret = threads.getter.execution_order]
    /\ UNCHANGED <<glast, adds, fail_fast, result_cache, cvars, ovars>>

NextGraphThreads ==
    \/ \E validator \in ThreadValidators : AdderSetValidator(validator)
    \/ AdderAddDependency
    \/ AdderAddDependent
    \/ AdderClearOrder
    \/ GetterCheckCached
    \/ GetterInDegree
    \/ GetterAvailable
    \/ GetterLoop
    \/ GetterStoreOrder

SpecGraphThreads == InitGraphThreads /\ [][NextGraphThreads]_vars

(***************************************************************************)
(* Calls on a DynamicRegistry.  Its cache is sc; info records, for each    *)
(* cached key, the call that created the entry, its value and its time.    *)
(* metrics holds the PerformanceMetrics of each name, and MaxCalls bounds   *)
(* the operations one of them records.                                     *)
(***************************************************************************)
\* DynamicRegistry(cache_size, cache_policy, ttl_seconds)
\* the durations the calls of one thread on a registry measure (its
\* counters are what is looked at)
RegistryDurations == {1}

InitRegistry ==
    /\ sc \in {SmartCache_init(m, LRU, t) : m \in Sizes, t \in TTLs}
    /\ InitHistory
    /\ InitGraph
    /\ InitObjects

\* what is recorded of the call that created an entry
Created(by, value, t) == [by |-> by, value |-> value, putTime |-> t]

\* registry.register(key, factory)
RegistryRegister(key, factory) ==
    /\ registry' = DynamicRegistry_register(registry, key, factory)
    /\ metrics' = DynamicRegistry_register_metrics(metrics, key)
    /\ olast' = ObjectCall("register", key, << >>, NoKey, {}, None, None, FALSE)
    /\ UNCHANGED <<sc, now, last, info, useOrder, putOrder, insOrder, strategies, func,
                   gvars>>

\* registry.get(key, *args, **kwargs), which measures duration_ms
RegistryGet(key, a, did, duration_ms) ==
    LET o == DynamicRegistry_get(registry, sc, key, a.args, a.kwargs, did, now)
        cache_key == create_cache_key(key, a.args, a.kwargs)
        stored == o.invoked # {} /\ ~o.raised
    IN  /\ HitAllowed(sc, cache_key, now)
        /\ DynamicRegistry_get_records(registry, key, o)
              => MetricsOf(metrics, key).total_calls < MaxCalls
        /\ sc' = o.cache
        /\ metrics' = DynamicRegistry_get_metrics(metrics, registry, key, o, duration_ms)
        /\ olast' = ObjectCall("get", key, a, cache_key, o.invoked,
                               IF o.invoked = {} THEN None ELSE did, o.ret, o.raised)
        /\ info' = [k \in Present(sc') |->
                      IF (k = cache_key /\ stored) \/ k \notin Present(sc)
                      THEN Created(<<key, a>>, sc'.cache[k].value, now)
                      ELSE info[k]]
        /\ UNCHANGED <<now, last, useOrder, putOrder, insOrder, registry, strategies,
                       func, gvars>>

\* registry.clear_cache()
RegistryClearCache ==
    /\ sc' = SmartCache_clear(sc)
    /\ info' = << >>
    /\ olast' = ObjectCall("clear_cache", None, << >>, NoKey, {}, None, None, FALSE)
    /\ UNCHANGED <<now, last, useOrder, putOrder, insOrder, registry, strategies, func,
                   metrics, gvars>>

\* time passes between the calls on an object whose cache has a TTL
Elapse ==
    /\ sc.ttl_seconds # 0
    /\ now < MaxTime
    /\ now' = now + 1
    /\ olast' = ObjectCall("elapse", None, << >>, NoKey, {}, None, None, FALSE)
    /\ UNCHANGED <<sc, last, info, useOrder, putOrder, insOrder, registry, strategies,
                   func, metrics, gvars>>

NextRegistry ==
    \/ \E key \in FactoryNames, factory \in Factories : RegistryRegister(key, factory)
    \/ \E key \in FactoryNames, a \in ArgLists, did \in Results,
             duration_ms \in RegistryDurations : RegistryGet(key, a, did, duration_ms)
    \/ RegistryClearCache
    \/ Elapse

SpecRegistry == InitRegistry /\ [][NextRegistry]_vars


(***************************************************************************)
(* One DynamicRegistry with two factory names.  The registry is            *)
(* constructed with one SmartCache, self._cache, of max_size cache_size;   *)
(* the results of all names are stored in it.                              *)
(***************************************************************************)
RegistryNames == {"f", "g"}

\* registry = DynamicRegistry(cache_size=m)
InitRegistryNames ==
    /\ sc \in {SmartCache_init(m, LRU, 0) : m \in Sizes}
    /\ InitHistory
    /\ InitGraph
    /\ InitObjects

NextRegistryNames ==
    \/ \E key \in RegistryNames : RegistryRegister(key, "factory1")
    \/ \E key \in RegistryNames, a \in ArgLists, did \in Results,
             duration_ms \in RegistryDurations : RegistryGet(key, a, did, duration_ms)
    \/ RegistryClearCache

SpecRegistryNames == InitRegistryNames /\ [][NextRegistryNames]_vars


(***************************************************************************)
(* One DynamicRegistry called with arguments that hold sets and dicts,     *)
(* each in two orders of their items, by themselves, nested in a list, a   *)
(* tuple or a dict, and as keyword arguments written in two orders.        *)
(***************************************************************************)
\* {0, 8} and {8, 0}: equal sets that iterate in different orders
SetValues ==
    {PyValue("set", <<PyInt(0), PyInt(8)>>), PyValue("set", <<PyInt(8), PyInt(0)>>)}

\* {1: 1, 2: 2} and {2: 2, 1: 1}: equal dicts filled in different orders
DictValues ==
    {PyValue("dict", <<<<PyInt(1), PyInt(1)>>, <<PyInt(2), PyInt(2)>>>>),
     PyValue("dict", <<<<PyInt(2), PyInt(2)>>, <<PyInt(1), PyInt(1)>>>>)}

KeyValues ==
    {PyValue("list", <<PyInt(1), PyInt(2)>>)}
        \cup SetValues \cup DictValues
        \cup {PyValue(type, <<v>>) : type \in {"list", "tuple"}, v \in SetValues \cup DictValues}
        \cup {PyValue("dict", <<<<PyInt(1), v>>>>) : v \in DictValues}

\* get('f', v), get('f', x=1, y=d) and get('f', y=d, x=1)
KeyArgLists ==
    {Arguments(<<v>>, << >>) : v \in KeyValues}
        \cup {Arguments(<< >>, <<<<"x", PyInt(1)>>, <<"y", d>>>>) : d \in DictValues}
        \cup {Arguments(<< >>, <<<<"y", d>>, <<"x", PyInt(1)>>>>) : d \in DictValues}

\* registry = DynamicRegistry(cache_size=m)
InitKeys ==
    /\ sc \in {SmartCache_init(m, LRU, 0) : m \in Sizes}
    /\ InitHistory
    /\ InitGraph
    /\ InitObjects

NextKeys ==
    \/ RegistryRegister("f", "factory1")
    \/ \E a \in KeyArgLists, duration_ms \in RegistryDurations :
          RegistryGet("f", a, "v1", duration_ms)
    \/ RegistryClearCache

SpecKeys == InitKeys /\ [][NextKeys]_vars


(***************************************************************************)
(* Threads calling get on one DynamicRegistry.  self._cache.get and        *)
(* self._cache.put run under the lock of the SmartCache and are one step   *)
(* each; the registry's own lock (threads.lock names its holder) is taken  *)
(* after the cache check, so it covers the creation of a result but not    *)
(* the return of a cached one.  record_operation takes no lock: each of    *)
(* its statements reads the fields it needs and then assigns, and the      *)
(* interpreter may switch in between.  calls and recorded are history: the *)
(* calls begun, and the calls that ran record_operation to its end.        *)
(***************************************************************************)
ThreadIdle ==
    [pc |-> "idle", key |-> None, a |-> Arguments(<< >>, << >>), cache_key |-> None,
     duration_ms |-> 0, cache_hit |-> FALSE, statement |-> 0, tmp |-> None,
     result |-> None, ret |-> None, raised |-> FALSE, invoked |-> {}]

\* registry = DynamicRegistry(cache_size=2); registry.register("f", factory1)
InitRegistryThreads ==
    /\ sc = SmartCache_init(2, LRU, 0)
    /\ InitHistory
    /\ graph = ValidationGraph_init
    /\ glast = GraphCall("init", NoValidator, FALSE, << >>, NoRun)
    /\ adds = 0
    /\ fail_fast = TRUE
    /\ result_cache = << >>
    /\ threads = [lock |-> None, calls |-> 0, recorded |-> 0,
                  of |-> [tid \in Tids |-> ThreadIdle]]
    /\ registry = DynamicRegistry_register(<< >>, "f", "factory1")
    /\ strategies = << >>
    /\ func = << >>
    /\ olast = NoObjectCall
    /\ metrics = [key \in {"f"} |-> PerformanceMetrics(key)]

\* the call begins; cached_result = self._cache.get(cache_key); the duration
\* is the one the call will measure
ThreadCacheGet(tid, key, a, duration_ms) ==
    LET cache_key == create_cache_key(key, a.args, a.kwargs)
        got == SmartCache_get(sc, cache_key, now)
    IN  /\ threads.of[tid].pc \in {"idle", "done"}
        /\ threads.calls < MaxCalls
        /\ sc' = got.state
        /\ threads' = [threads EXCEPT
             !.calls = @ + 1,
             !.of[tid] = [ThreadIdle EXCEPT
                            !.pc = IF got.ret # None THEN "record" ELSE "acquire",
                            !.key = key, !.a = a, !.cache_key = cache_key,
                            !.duration_ms = duration_ms,
                            !.cache_hit = got.ret # None,
                            !.statement = 1,
                            !.ret = got.ret]]
        /\ UNCHANGED <<graph, glast, adds, fail_fast, result_cache, now, last, info,
                       useOrder, putOrder, insOrder, ovars>>

\* with self._lock: if key not in self._registry: return None
ThreadAcquire(tid) ==
    /\ threads.of[tid].pc = "acquire"
    /\ CanAcquire(threads.lock, tid)
    /\ threads' = IF threads.of[tid].key \in DOMAIN registry
                  THEN [threads EXCEPT !.lock = tid, !.of[tid].pc = "create"]
                  ELSE [threads EXCEPT !.of[tid].pc = "done"]
    /\ UNCHANGED <<graph, glast, adds, fail_fast, result_cache, cvars, ovars>>

\* result = self._registry[key](*args, **kwargs), the factory doing `did`
ThreadCreate(tid, did) ==
    /\ threads.of[tid].pc = "create"
    /\ threads' = [threads EXCEPT
         !.of[tid].invoked = {registry[threads.of[tid].key]},
         !.of[tid].result = IF did = "raise" THEN None ELSE did,
         !.of[tid].raised = (did = "raise"),
         !.of[tid].pc = IF did = "raise" THEN "record" ELSE "put"]
    /\ UNCHANGED <<graph, glast, adds, fail_fast, result_cache, cvars, ovars>>

\* self._cache.put(cache_key, result)
ThreadPut(tid) ==
    /\ threads.of[tid].pc = "put"
    /\ sc' = SmartCache_put(sc, threads.of[tid].cache_key, threads.of[tid].result, now)
    /\ threads' = [threads EXCEPT !.of[tid].pc = "record",
                                  !.of[tid].ret = threads.of[tid].result]
    /\ UNCHANGED <<graph, glast, adds, fail_fast, result_cache, now, last, info,
                   useOrder, putOrder, insOrder, ovars>>

\* a statement of record_operation reads the fields of self._metrics[key]
ThreadRecordReads(tid) ==
    LET t == threads.of[tid]
    IN  /\ t.pc = "record"
        /\ threads' = [threads EXCEPT
             !.of[tid].pc = "assign",
             !.of[tid].tmp = Computed(metrics[t.key],
                                      RecordStatements(t.cache_hit)[t.statement],
                                      t.duration_ms)]
        /\ UNCHANGED <<graph, glast, adds, fail_fast, result_cache, cvars, ovars>>

\* the statement assigns; after the last one the call returns or raises and
\* leaves the with block if it was in it
ThreadRecordAssigns(tid) ==
    LET t == threads.of[tid]
        statements == RecordStatements(t.cache_hit)
        last_one == t.statement = Len(statements)
    IN  /\ t.pc = "assign"
        /\ metrics' = [metrics EXCEPT ![t.key][statements[t.statement]] = t.tmp]
        /\ threads' = [threads EXCEPT
             !.of[tid].pc = IF last_one THEN "done" ELSE "record",
             !.of[tid].statement = @ + 1,
             !.of[tid].tmp = None,
             !.recorded = IF last_one THEN @ + 1 ELSE @,
             !.lock = IF last_one /\ @ = tid THEN None ELSE @]
        /\ UNCHANGED <<graph, glast, adds, fail_fast, result_cache, cvars, registry,
                       strategies, func, olast>>

NextRegistryThreads ==
    \/ \E tid \in Tids, key \in FactoryNames, a \in ArgLists, duration_ms \in Durations :
          ThreadCacheGet(tid, key, a, duration_ms)
    \/ \E tid \in Tids : ThreadAcquire(tid)
    \/ \E tid \in Tids, did \in Results : ThreadCreate(tid, did)
    \/ \E tid \in Tids : ThreadPut(tid)
    \/ \E tid \in Tids : ThreadRecordReads(tid)
    \/ \E tid \in Tids : ThreadRecordAssigns(tid)

SpecRegistryThreads == InitRegistryThreads /\ [][NextRegistryThreads]_vars

(***************************************************************************)
(* Calls of a memoized function.  Its cache is sc, with info as for the    *)
(* registry.  metrics holds the wrapper's PerformanceMetrics.              *)
(***************************************************************************)
\* func = memoize(cache_size, ttl_seconds)(func)
InitMemoize ==
    /\ sc \in {SmartCache_init(m, LRU, t) : m \in Sizes, t \in TTLs}
    /\ InitHistory
    /\ InitGraph
    /\ registry = << >>
    /\ strategies = << >>
    /\ func \in Functions
    /\ olast = NoObjectCall
    /\ metrics = [name \in {"func"} |-> PerformanceMetrics(name)]

\* func(*args, **kwargs), which measures duration_ms
MemoizedCall(a, duration_ms) ==
    LET o == memoize_wrapper(func, sc, a.args, a.kwargs, now)
        cache_key == memoize_cache_key(a.args, a.kwargs)
        stored == o.invoked # {} /\ ~o.raised
    IN  /\ HitAllowed(sc, cache_key, now)
        /\ memoize_records(o) => metrics["func"].total_calls < MaxCalls
        /\ sc' = o.cache
        /\ metrics' = memoize_metrics(metrics, o, duration_ms)
        /\ olast' = ObjectCall("call", "func", a, cache_key, o.invoked,
                               IF o.invoked = {} THEN None ELSE func[a], o.ret,
                               o.raised)
        /\ info' = [k \in Present(sc') |->
                      IF (k = cache_key /\ stored) \/ k \notin Present(sc)
                      THEN Created(<<"func", a>>, sc'.cache[k].value, now)
                      ELSE info[k]]
        /\ UNCHANGED <<now, last, useOrder, putOrder, insOrder, registry, strategies,
                       func, gvars>>

\* func.clear_cache()
MemoizedClearCache ==
    /\ sc' = SmartCache_clear(sc)
    /\ info' = << >>
    /\ olast' = ObjectCall("clear_cache", "func", << >>, NoKey, {}, None, None, FALSE)
    /\ UNCHANGED <<now, last, useOrder, putOrder, insOrder, registry, strategies, func,
                   metrics, gvars>>

NextMemoize ==
    \/ \E a \in ArgLists, duration_ms \in Durations : MemoizedCall(a, duration_ms)
    \/ MemoizedClearCache
    \/ Elapse

SpecMemoize == InitMemoize /\ [][NextMemoize]_vars

(***************************************************************************)
(* Calls on a StrategyRegistry.  Its cache is sc.  Each strategy object is *)
(* registered at most once.  metrics holds self._metrics.                  *)
(***************************************************************************)
\* StrategyRegistry()
InitStrategy ==
    /\ sc = SmartCache_init(StrategyCacheSize, LRU, 0)
    /\ InitHistory
    /\ InitGraph
    /\ registry = << >>
    /\ strategies = << >>
    /\ func = << >>
    /\ olast = NoObjectCall
    /\ metrics = [name \in {"strategy_selection"} |-> PerformanceMetrics(name)]

\* registry.register(strategy)
StrategyRegister(strategy) ==
    /\ Len(strategies) < MaxStrategies
    /\ \A i \in 1..Len(strategies) : strategies[i].name # strategy.name
    /\ strategies' = StrategyRegistry_register(strategies, strategy, Len(strategies) + 1)
    /\ olast' = ObjectCall("register", strategy.name, << >>, None, {}, None, None, FALSE)
    /\ UNCHANGED <<sc, now, last, info, useOrder, putOrder, insOrder, registry, func,
                   metrics, gvars>>

\* registry.select_strategy(context), which measures duration_ms
StrategySelect(context, duration_ms) ==
    LET o == StrategyRegistry_select_strategy(strategies, sc, context, now)
        context_key == create_context_key(context)
    IN  /\ HitAllowed(sc, context_key, now)
        /\ metrics["strategy_selection"].total_calls < MaxCalls
        /\ sc' = o.cache
        /\ metrics' = StrategyRegistry_select_metrics(metrics, o, duration_ms)
        /\ olast' = ObjectCall("select", None, context, context_key, o.invoked, None,
                               o.ret, FALSE)
        /\ UNCHANGED <<now, last, info, useOrder, putOrder, insOrder, registry,
                       strategies, func, gvars>>

NextStrategy ==
    \/ \E strategy \in Strategies : StrategyRegister(strategy)
    \/ \E context \in StrategyContexts, duration_ms \in Durations :
          StrategySelect(context, duration_ms)

SpecStrategy == InitStrategy /\ [][NextStrategy]_vars


(***************************************************************************)
(* Two threads on one StrategyRegistry, which has no lock of its own (its  *)
(* SmartCache has one): the registrar calls register and the selector      *)
(* calls select_strategy.  strategies is the list as a reader finds it:    *)
(* while list.sort runs (its key function is Python code, so the           *)
(* interpreter may switch inside it) CPython makes the list appear empty   *)
(* and held keeps its elements.  completed and required are history: the   *)
(* list after the latest register that returned, and that list when the    *)
(* selector's call began; scanned tells whether every list the selector's  *)
(* loop read was sorted and held every strategy of completed.              *)
(***************************************************************************)
RegistrarIdle == [pc |-> "idle", held |-> << >>, completed |-> << >>]

SelectorIdle ==
    [pc |-> "idle", context |-> None, i |-> 0, found |-> None, ret |-> None,
     hit |-> FALSE, required |-> << >>, scanned |-> TRUE]

InitStrategyThreads ==
    /\ sc = SmartCache_init(StrategyCacheSize, LRU, 0)
    /\ InitHistory
    /\ graph = ValidationGraph_init
    /\ glast = GraphCall("init", NoValidator, FALSE, << >>, NoRun)
    /\ adds = 0
    /\ fail_fast = TRUE
    /\ result_cache = << >>
    /\ threads = [registrar |-> RegistrarIdle, selector |-> SelectorIdle]
    /\ InitObjects

\* the call begins; self._strategies.append(strategy)
RegistrarAppend(strategy) ==
    /\ threads.registrar.pc = "idle"
    /\ Len(strategies) < MaxStrategies
    /\ \A i \in 1..Len(strategies) : strategies[i].name # strategy.name
    /\ strategies' = Append(strategies, [name |-> strategy.name,
                                         priority |-> strategy.priority,
                                         handles |-> strategy.handles,
                                         registered |-> Len(strategies) + 1])
    /\ threads' = [threads EXCEPT !.registrar.pc = "sort"]
    /\ UNCHANGED <<graph, glast, adds, fail_fast, result_cache, cvars, registry,
                   func, olast, metrics>>

\* self._strategies.sort(...) begins: the list appears empty
RegistrarSortBegins ==
    /\ threads.registrar.pc = "sort"
    /\ strategies' = << >>
    /\ threads' = [threads EXCEPT !.registrar.pc = "sorting",
                                  !.registrar.held = strategies]
    /\ UNCHANGED <<graph, glast, adds, fail_fast, result_cache, cvars, registry,
                   func, olast, metrics>>

\* the sort ends and the call returns
RegistrarSortEnds ==
    /\ threads.registrar.pc = "sorting"
    /\ strategies' = SortByPriority(threads.registrar.held)
    /\ threads' = [threads EXCEPT
         !.registrar = [pc |-> "idle", held |-> << >>, completed |-> strategies']]
    /\ UNCHANGED <<graph, glast, adds, fail_fast, result_cache, cvars, registry,
                   func, olast, metrics>>

\* the call begins; cached_strategy = self._cache.get(context_key), returned
\* if it is not None; otherwise the iteration over self._strategies begins
SelectorGetCached(context) ==
    LET context_key == create_context_key(context)
        got == SmartCache_get(sc, context_key, now)
    IN  /\ threads.selector.pc \in {"idle", "done"}
        /\ HitAllowed(sc, context_key, now)
        /\ sc' = got.state
        /\ threads' = [threads EXCEPT
             !.selector = IF got.ret # None
                          THEN [SelectorIdle EXCEPT
                                  !.pc = "done", !.context = context,
                                  !.ret = got.ret, !.hit = TRUE,
                                  !.required = threads.registrar.completed]
                          ELSE [SelectorIdle EXCEPT
                                  !.pc = "scan", !.context = context, !.i = 1,
                                  !.required = threads.registrar.completed]]
        /\ UNCHANGED <<graph, glast, adds, fail_fast, result_cache, now, last, info,
                       useOrder, putOrder, insOrder, ovars>>

SortedByPriority(list) ==
    \A i, j \in 1..Len(list) : i < j => list[i].priority >= list[j].priority

HoldsAll(list, completed) ==
    \A j \in 1..Len(completed) : \E i \in 1..Len(list) : list[i] = completed[j]

\* for strategy in self._strategies: if strategy.can_handle(context): ...
\* one round of the loop, or its end and return None
SelectorNext ==
    LET t == threads.selector
        read == [t EXCEPT
                   !.scanned = /\ @
                               /\ SortedByPriority(strategies)
                               /\ HoldsAll(strategies, threads.registrar.completed)]
    IN  /\ t.pc = "scan"
        /\ threads' = [threads EXCEPT
             !.selector = IF t.i > Len(strategies)
                          THEN [read EXCEPT !.pc = "done", !.ret = None]
                          ELSE IF t.context \in strategies[t.i].handles
                          THEN [read EXCEPT !.pc = "put",
                                            !.found = strategies[t.i].name]
                          ELSE [read EXCEPT !.i = @ + 1]]
        /\ UNCHANGED <<graph, glast, adds, fail_fast, result_cache, cvars, ovars>>

\* self._cache.put(context_key, strategy); return strategy
SelectorPut ==
    LET t == threads.selector
    IN  /\ t.pc = "put"
        /\ sc' = SmartCache_put(sc, create_context_key(t.context), t.found, now)
        /\ threads' = [threads EXCEPT !.selector.pc = "done",
                                      !.selector.ret = t.found]
        /\ UNCHANGED <<graph, glast, adds, fail_fast, result_cache, now, last, info,
                       useOrder, putOrder, insOrder, ovars>>

NextStrategyThreads ==
    \/ \E strategy \in Strategies : RegistrarAppend(strategy)
    \/ RegistrarSortBegins
    \/ RegistrarSortEnds
    \/ \E context \in StrategyContexts : SelectorGetCached(context)
    \/ SelectorNext
    \/ SelectorPut

SpecStrategyThreads == InitStrategyThreads /\ [][NextStrategyThreads]_vars

(***************************************************************************)
(* Properties of SmartCache.  A step is the call that last' names.         *)
(***************************************************************************)
\* the step is a put of a key that is not present into a cache at capacity
PutsNewAtCapacity ==
    /\ last'.op = "put"
    /\ last'.key \notin Present(sc)
    /\ SmartCache_size(sc) >= sc.max_size

\* the step removes exactly victim and inserts the key put
Replaces(victim) ==
    Present(sc') = (Present(sc) \ {victim}) \cup {last'.key}

\* the keys a call to _evict_one would remove now
NextVictims(s) == Present(s) \ Present(SmartCache_evict_one(s))

\* C1: under LRU, a put of a new key at capacity removes exactly the present
\* key whose latest successful get or put is the oldest.
C1_LRUEvictsLeastRecentlyUsed ==
    [][(sc.policy = LRU /\ PutsNewAtCapacity)
         => (useOrder # << >> /\ Replaces(Head(useOrder)))]_cvars

\* C1 happens: an LRU put evicted a key while the key that stayed had been
\* promoted by a get hit
C1_Witness ==
    /\ sc.policy = LRU
    /\ last.op = "put"
    /\ last.removed # {}
    /\ \E k \in Present(sc) : info[k].hits > 0

\* C2: under LFU, a put of a new key at capacity removes exactly one present
\* entry, whose count of get hits since its put is minimal and which, among
\* the entries with that count, was inserted earliest (by the put that made
\* it present, or by its latest put).
LeastHits(k) == \A j \in Present(sc) : info[k].hits <= info[j].hits

FirstOf(order, S) == Head(SelectSeq(order, LAMBDA x : x \in S))

EarliestInserted(k) ==
    LET tied == {j \in Present(sc) : info[j].hits = info[k].hits}
    IN  k = FirstOf(insOrder, tied) \/ k = FirstOf(putOrder, tied)

C2_LFUEvictsLeastFrequentlyUsed ==
    [][(sc.policy = LFU /\ PutsNewAtCapacity)
         => \E victim \in Present(sc) :
               Replaces(victim) /\ LeastHits(victim) /\ EarliestInserted(victim)]_cvars

\* the first half of C2 alone: the victim's hit count is minimal
C2_VictimHasLeastHits ==
    [][(sc.policy = LFU /\ PutsNewAtCapacity)
         => \E victim \in Present(sc) : Replaces(victim) /\ LeastHits(victim)]_cvars

\* C3: under every policy a put of a new key at capacity removes exactly one
\* entry, and size() never exceeds max_size.
C3_SizeNeverExceedsMaxSize ==
    [][/\ SmartCache_size(sc') <= sc'.max_size
       /\ PutsNewAtCapacity => \E victim \in Present(sc) : Replaces(victim)]_cvars

\* C3 restricted to LRU, LFU and FIFO
C3_SizeBoundedExceptTTLPolicy ==
    sc.policy # TTL => SmartCache_size(sc) <= sc.max_size

\* C4: with a TTL, get returns None when the key's latest put is older than
\* the TTL and the stored value otherwise; a hit leaves the entry's
\* timestamp alone; the get that finds the entry expired removes it from the
\* map and from the order structures.
GetsPresentKeyWithTTL ==
    /\ last'.op = "get"
    /\ last'.key \in Present(sc)
    /\ sc.ttl_seconds # 0

Age(k) == now - info[k].putTime

HeapKeys(s) == {t[3] : t \in s.lfu_heap}

FreshGetHits(k) ==
    /\ last'.ret = info[k].putVal
    /\ k \in Present(sc')
    /\ sc'.cache[k].timestamp = info[k].putTime
    /\ SmartCache_size(sc') = SmartCache_size(sc)

ExpiredGetRemoves(k) ==
    /\ last'.ret = None
    /\ k \notin Present(sc')
    /\ SmartCache_size(sc') = SmartCache_size(sc) - 1
    /\ k \notin SeqSet(sc'.access_order)
    /\ k \notin SeqSet(sc'.fifo_order)

C5_FIFOEvictsInInsertionOrder ==
    [][/\ (sc.policy = FIFO /\ PutsNewAtCapacity)
            => (insOrder # << >> /\ Replaces(Head(insOrder)))
       /\ (sc.policy = FIFO /\ last'.op = "get")
            => NextVictims(sc') = NextVictims(sc)]_cvars

\* C5 as amended: the order is that of each key's latest put (a replacing put
\* moves its key to the back), and a get that does not find its key expired
\* leaves the next victim alone
C5_FIFOEvictsInLatestPutOrder ==
    [][/\ (sc.policy = FIFO /\ PutsNewAtCapacity)
            => (putOrder # << >> /\ Replaces(Head(putOrder)))
       /\ (sc.policy = FIFO /\ last'.op = "get" /\ last'.removed = {})
            => NextVictims(sc') = NextVictims(sc)]_cvars

\* C5 happens: a FIFO put evicted a key although the key that stayed had a
\* get hit
C5_Witness ==
    /\ sc.policy = FIFO
    /\ last.op = "put"
    /\ last.removed # {}
    /\ \E k \in Present(sc) : info[k].hits > 0

\* C6: a put on a present key stores the new value and removes nothing:
\* the same keys are present and every other entry is unchanged.
C6_PutOnPresentKeyEvictsNothing ==
    [][(last'.op = "put" /\ last'.key \in Present(sc))
         => /\ Present(sc') = Present(sc)
            /\ sc'.cache[last'.key].value = last'.value
            /\ \A k \in Present(sc) \ {last'.key} : sc'.cache[k] = sc.cache[k]]_cvars

\* C6 happens: a put replaced the value of a present key in a full cache
C6_Witness ==
    /\ last.op = "put"
    /\ last.had
    /\ SmartCache_size(sc) >= sc.max_size
    /\ SmartCache_size(sc) > 1
    /\ last.value # "v1"

(***************************************************************************)
(* Properties of the graph and the pipeline.                               *)
(***************************************************************************)
Registered(g) == DOMAIN g.validators

\* the dependency relation of the registered validators: what each declares
Declared(g, n) == g.validators[n].dependencies

\* every name reachable from the names of S along declared dependencies
RECURSIVE DependencyClosure(_, _)
DependencyClosure(g, S) ==
    LET more == S \cup UNION {Declared(g, n) : n \in S \cap Registered(g)}
    IN  IF more = S THEN S ELSE DependencyClosure(g, more)

\* the names n depends on, directly or through other validators
AllDependencies(g, n) == DependencyClosure(g, Declared(g, n))

HasCycle(g) == \E n \in Registered(g) : n \in AllDependencies(g, n)

\* the graph holds for each validator exactly the dependencies it declares,
\* and every dependency is a registered validator
IsValidatorSet(g) ==
    \A n \in Registered(g) :
        /\ g.dependencies[n] = Declared(g, n)
        /\ Declared(g, n) \subseteq Registered(g)

Position(order, n) == CHOOSE i \in 1..Len(order) : order[i] = n

IsOrderOf(order, g) ==
    /\ Len(order) = Cardinality(Registered(g))
    /\ SeqSet(order) = Registered(g)
    /\ \A n \in Registered(g) : \A d \in Declared(g, n) :
          d \in SeqSet(order) /\ Position(order, d) < Position(order, n)

\* C7: when the registered validators form an acyclic set (each depends
\* only on registered validators, and none on itself through others), in
\* whatever order they were added, get_execution_order returns a list that
\* holds every registered validator exactly once, each after all of its
\* dependencies.
C7_AcyclicOrderIsTopological ==
    (glast.op = "order" /\ IsValidatorSet(graph) /\ ~HasCycle(graph))
        => (~glast.raised /\ IsOrderOf(glast.run.order, graph))

\* C7 happens: three validators, added dependents first, were ordered and the
\* order had to move a validator behind one of lower name and later addition
C7_Witness ==
    /\ glast.op = "order"
    /\ ~glast.raised
    /\ IsValidatorSet(graph)
    /\ Cardinality(Registered(graph)) = 3
    /\ Declared(graph, "extension") = {"pdf_header"}
    /\ Declared(graph, "pdf_header") = {"file_size"}
    /\ glast.run.order = <<"file_size", "pdf_header", "extension">>

\* C8: get_execution_order raises exactly when the dependency relation of
\* the registered validators has a cycle; when it raises it names the
\* validators that could not be ordered, which include every validator on a
\* cycle, returns no order and caches none.
C8_RaisesIffCycle ==
    glast.op = "order"
        => /\ glast.raised <=> HasCycle(graph)
           /\ glast.raised
                => /\ {n \in Registered(graph) : n \in AllDependencies(graph, n)}
                         \subseteq glast.remaining
                   /\ glast.remaining \subseteq Registered(graph)
                   /\ glast.run.order = NoOrder
                   /\ graph.execution_order = NoOrder

\* what the claims call a blocking outcome
InvalidCriticalOrHigh(outcome) ==
    outcome.result = INVALID /\ outcome.severity \in {CRITICAL, HIGH}

\* the validators of a run whose validate raised
ValidateRaised(call) ==
    {n \in call.run.validate_called : call.beh[n].out = Raise}

\* validator n ended a fail-fast run: its validate raised, it was blocked,
\* or it returned a blocking outcome
Stopped(call, n) ==
    /\ n \in DOMAIN call.run.results
    /\ \/ n \in ValidateRaised(call)
       \/ ~call.run.results[n].dependencies_satisfied
       \/ InvalidCriticalOrHigh(call.run.results[n])

Prefix(order, k) == {order[j] : j \in 1..k}

\* the run returned a result map that holds the first k validators of the
\* order, none before the k-th stopped the run, and nothing was called on
\* the validators after the k-th
StopsAt(call, k) ==
    LET order == call.run.order
    IN  /\ DOMAIN call.run.results = Prefix(order, k)
        /\ \A j \in 1..(k - 1) : ~Stopped(call, order[j])
        /\ k < Len(order) => (k >= 1 /\ Stopped(call, order[k]))
        /\ call.run.can_called \cup call.run.validate_called \subseteq Prefix(order, k)

RunReturnsResults(call) == ~call.raised /\ ~call.run.exception

FailFastContract(call) ==
    IF call.fail_fast
    THEN \E k \in 0..Len(call.run.order) : StopsAt(call, k)
    ELSE DOMAIN call.run.results = Registered(graph)

\* C9: a run over an orderable graph returns a result map; with fail_fast
\* the map holds exactly the validators up to and including the first that
\* raised, was blocked or returned an Invalid outcome of severity Critical
\* or High, and no later validator had can_validate or validate called;
\* without fail_fast the map has an entry for every registered validator.
C9_FailFastStopsAtFirstFailure ==
    (glast.op = "run" /\ ~glast.raised)
        => (RunReturnsResults(glast) /\ FailFastContract(glast))

\* The same for the runs in which no can_validate raises.
C9_HoldsWhenCanValidateReturns ==
    (glast.op = "run" /\ RunReturnsResults(glast)) => FailFastContract(glast)

\* the outcome the run must hold for a validator that was reached
ExpectedResult(call, n) ==
    LET b == call.beh[n]
        r == call.run.results[n]
    IN  IF b.can = "false" THEN r.result = SKIPPED
        ELSE IF n \in ValidateRaised(call)
        THEN r.result = ERROR /\ r.severity = HIGH
        ELSE IF n \in call.run.validate_called
        THEN r.result = b.out[1] /\ r.severity = b.out[2]
        ELSE ~r.dependencies_satisfied

\* validators that neither failed nor depend, directly or through others,
\* on one that failed, and that can validate the context
Unaffected(call) ==
    {m \in Registered(graph) :
        /\ call.beh[m].can = "true"
        /\ ({m} \cup AllDependencies(graph, m)) \cap ValidateRaised(call) = {}
        /\ \A d \in AllDependencies(graph, m) :
              d \in DOMAIN call.beh /\ call.beh[d].out # Raise}

ContainsValidateException(call) ==
    \A n \in ValidateRaised(call) :
        /\ n \in DOMAIN call.run.results
        /\ call.run.results[n].result = ERROR
        /\ call.run.results[n].severity = HIGH
        /\ \A j \in 1..(Position(call.run.order, n) - 1) :
              LET m == call.run.order[j]
              IN  m \in DOMAIN call.run.results /\ ExpectedResult(call, m)
        /\ ~call.fail_fast => Unaffected(call) \subseteq call.run.validate_called

\* C10: when a validator's validate raised in a run, the run still returns
\* a result map; the map holds an Error outcome of severity High for that
\* validator and the outcomes of the validators before it, and without
\* fail_fast every validator that can validate and does not depend on a
\* failed one had validate called in the same run.
C10_ValidateExceptionIsContained ==
    (glast.op = "run" /\ ~glast.raised /\ ValidateRaised(glast) # {})
        => (RunReturnsResults(glast) /\ ContainsValidateException(glast))

\* The same for the runs in which no can_validate raises, over a graph that
\* holds for each validator the dependencies it declares.
C10_HoldsWhenCanValidateReturns ==
    (/\ glast.op = "run"
     /\ RunReturnsResults(glast)
     /\ IsValidatorSet(graph)
     /\ ValidateRaised(glast) # {})
        => ContainsValidateException(glast)

\* the engine holds the default validation suite and nothing else
HoldsDefaultSuite(g) ==
    /\ Registered(g) = {DefaultSuite[i].name : i \in 1..Len(DefaultSuite)}
    /\ \A n \in Registered(g) : g.validators[n].default

\* the call was a run in which every default validator did what it does with
\* this context
RunsOn(call, context) ==
    /\ call.op = "run"
    /\ ~call.raised
    /\ \A n \in Registered(graph) :
          graph.validators[n].default => call.beh[n] = DefaultBehaviour(n, context)

\* a file of 0 bytes whose extension is .pdf
EmptyPdf == ValidationContext("a.pdf", ".pdf", 0, "other", "other")

\* every default behaviour drawn for a run is that of some context's
DefaultBehavioursCovered ==
    \A c \in Contexts : \A i \in 1..Len(DefaultSuite) :
        DefaultBehaviour(DefaultSuite[i].name, c) \in BehavioursOf(DefaultSuite[i])

\* C11: with the default validators and fail_fast, the order starts with
\* extension, and the run on a 0-byte .pdf file gives extension Valid and
\* file_size Invalid with severity High, after which pdf_header is not
\* executed and has no entry in the result map.
C11_EmptyPdfStopsAtFileSize ==
    (fail_fast /\ HoldsDefaultSuite(graph) /\ RunsOn(glast, EmptyPdf))
        => /\ glast.run.order[1] = "extension"
           /\ RunReturnsResults(glast)
           /\ "extension" \in DOMAIN glast.run.results
           /\ glast.run.results["extension"].result = VALID
           /\ "file_size" \in DOMAIN glast.run.results
           /\ glast.run.results["file_size"].result = INVALID
           /\ glast.run.results["file_size"].severity = HIGH
           /\ "pdf_header" \notin glast.run.validate_called
           /\ "pdf_header" \notin DOMAIN glast.run.results

\* the validators of a run whose can_validate raised
CanValidateRaised(call) ==
    {n \in call.run.can_called : call.beh[n].can = "raise"}

\* C12: when a validator's can_validate raised in a run, the run still
\* returns a result map; the map holds an Error outcome of severity High for
\* that validator and the outcomes of the validators before it, and without
\* fail_fast it has an entry for every registered validator.
C12_CanValidateExceptionIsContained ==
    (glast.op = "run" /\ ~glast.raised /\ CanValidateRaised(glast) # {})
        => /\ RunReturnsResults(glast)
           /\ \A n \in CanValidateRaised(glast) :
                 /\ n \in DOMAIN glast.run.results
                 /\ glast.run.results[n].result = ERROR
                 /\ glast.run.results[n].severity = HIGH
                 /\ \A j \in 1..(Position(glast.run.order, n) - 1) :
                       glast.run.order[j] \in DOMAIN glast.run.results
           /\ ~glast.fail_fast => DOMAIN glast.run.results = Registered(graph)

\* C13: a validate_optimized on a graph that contains a cycle raises the
\* cyclic-dependency error to its caller instead of returning an outcome
\* map, and calls no validator's can_validate or validate.
C13_CycleIsRaisedByValidate ==
    (glast.op = "validate" /\ HasCycle(graph))
        => /\ glast.raised
           /\ glast.run.can_called = {}
           /\ glast.run.validate_called = {}

(***************************************************************************)
(* Properties of DynamicRegistry.  A step is the call that olast' names.   *)
(***************************************************************************)
\* the call has a live entry of its own: one created by a get with the same
\* name and arguments, neither evicted, cleared nor expired since
HasOwnEntry(call) ==
    /\ call.key \in DOMAIN sc.cache
    /\ ~Expired(sc, call.key, now)
    /\ info[call.key].by = <<call.name, call.args>>

\* C14: a get of a registered name with the name and arguments of an earlier
\* get whose entry is still cached returns that get's value without invoking
\* the factory; any other get of a registered name invokes the factory.
C14_GetCachesPerNameAndArguments ==
    [][(olast'.op = "get" /\ olast'.name \in DOMAIN registry)
          => IF HasOwnEntry(olast')
             THEN /\ olast'.invoked = {}
                  /\ ~olast'.raised
                  /\ olast'.ret = info[olast'.key].value
             ELSE olast'.invoked # {}]_vars

\* the entries of the cache after the step were there before it, with the
\* same value and timestamp
NothingCreatedOrChanged ==
    \A k \in DOMAIN sc'.cache :
        /\ k \in DOMAIN sc.cache
        /\ sc'.cache[k].value = sc.cache[k].value
        /\ sc'.cache[k].timestamp = sc.cache[k].timestamp

\* C15: when the factory raises during a get, the get raises, no cache entry
\* is created or changed (an expired one may be dropped), and the next get
\* with the same name and arguments invokes the factory again.
C15_FactoryExceptionIsNotCached ==
    [][olast'.op = "get"
          => /\ olast'.did = "raise" => (olast'.raised /\ NothingCreatedOrChanged)
             /\ (/\ olast.op = "get"
                 /\ olast.did = "raise"
                 /\ olast'.name = olast.name
                 /\ olast'.args = olast.args) => olast'.invoked # {}]_vars

\* the call finds no live entry under its key
HasNoEntry(call) ==
    call.key \notin DOMAIN sc.cache \/ Expired(sc, call.key, now)

\* C16: a call of a memoized function whose arguments have a live entry of
\* their own returns the value the function returned the first time without
\* invoking the function; a call that finds no entry (the first, or the next
\* after eviction, expiry or clear_cache) invokes the function and returns
\* its value, None included.
C16_MemoizeInvokesOncePerArguments ==
    [][olast'.op = "call"
          => /\ HasOwnEntry(olast')
                  => /\ olast'.invoked = {}
                     /\ ~olast'.raised
                     /\ olast'.ret = info[olast'.key].value
                     /\ olast'.ret = func[olast'.args]
             /\ HasNoEntry(olast')
                  => /\ olast'.invoked # {}
                     /\ func[olast'.args] # "raise"
                           => (~olast'.raised /\ olast'.ret = func[olast'.args])]_vars

\* a get whose factory raised while the cache held an entry
C15_Witness ==
    /\ olast.op = "get"
    /\ olast.did = "raise"
    /\ olast.raised
    /\ olast.invoked # {}
    /\ DOMAIN sc.cache # {}

(***************************************************************************)
(* Properties of StrategyRegistry.                                         *)
(***************************************************************************)
\* the registered strategies whose can_handle accepts the context
Handlers(context) ==
    {i \in 1..Len(strategies) : context \in strategies[i].handles}

\* the best of them: the highest priority, and among equals the one
\* registered first
Best(context) ==
    LET i == CHOOSE j \in Handlers(context) :
                 \A k \in Handlers(context) :
                     \/ strategies[k].priority < strategies[j].priority
                     \/ /\ strategies[k].priority = strategies[j].priority
                        /\ strategies[j].registered <= strategies[k].registered
    IN  strategies[i].name

\* C17: a select_strategy that finds no entry under the context's key and
\* some strategy able to handle the context returns the first able strategy
\* in priority order and stores it under the key; the select_strategy that
\* follows for the same context returns it and calls no can_handle.
C17_MissSelectsFirstAndCaches ==
    [][olast'.op = "select"
          => /\ (olast'.key \notin DOMAIN sc.cache /\ Handlers(olast'.args) # {})
                  => /\ olast'.ret = Best(olast'.args)
                     /\ olast'.key \in DOMAIN sc'.cache
                     /\ sc'.cache[olast'.key].value = olast'.ret
             /\ (/\ olast.op = "select"
                 /\ olast.invoked # {}
                 /\ olast.ret # None
                 /\ olast'.args = olast.args)
                  => /\ olast'.ret = olast.ret
                     /\ olast'.invoked = {}]_vars

\* a select_strategy answered from the cache, two strategies being registered
C17_Witness ==
    /\ olast.op = "select"
    /\ olast.invoked = {}
    /\ olast.ret # None
    /\ Len(strategies) >= 2
    /\ sc.cache[olast.key].access_count >= 1

\* C18: every select_strategy returns the best strategy for the context:
\* the highest-priority registered strategy able to handle it.
C18_SelectReturnsBest ==
    [][(olast'.op = "select" /\ Handlers(olast'.args) # {})
          => olast'.ret = Best(olast'.args)]_vars

\* C19: a select_strategy for a context no registered strategy can handle
\* returns None and stores nothing; the select_strategy that follows the
\* registration of a strategy able to handle the context returns a strategy
\* able to handle it.
C19_UnhandledContextIsNotCached ==
    [][olast'.op = "select"
          => /\ Handlers(olast'.args) = {}
                  => /\ olast'.ret = None
                     /\ DOMAIN sc'.cache = DOMAIN sc.cache
             /\ (/\ olast.op = "register"
                 /\ \E i \in Handlers(olast'.args) : strategies[i].name = olast.name)
                  => \E i \in Handlers(olast'.args) : strategies[i].name = olast'.ret]_vars

\* C20: the list of strategies is sorted by non-increasing priority, and
\* strategies of equal priority are in the order of their registration.
C20_StrategiesSortedStably ==
    \A i, j \in 1..Len(strategies) :
        i < j => \/ strategies[i].priority > strategies[j].priority
                 \/ /\ strategies[i].priority = strategies[j].priority
                    /\ strategies[i].registered < strategies[j].registered

\* three strategies, two of equal priority, the one of higher priority
\* registered last
C20_Witness ==
    /\ Len(strategies) = 3
    /\ strategies[1].registered = 3
    /\ strategies[2].priority = strategies[3].priority
    /\ strategies[2].registered = 1

(***************************************************************************)
(* Further properties of the graph.                                        *)
(***************************************************************************)
\* the registered validators not among the first i - 1 of the order whose
\* declared dependencies all are
Ready(g, order, i) ==
    {n \in Registered(g) \ Prefix(order, i - 1) :
        Declared(g, n) \subseteq Prefix(order, i - 1)}

HighestPriorityFirst(order, g) ==
    \A i \in 1..Len(order) :
        \A n \in Ready(g, order, i) :
            g.validators[n].priority <= g.validators[order[i]].priority

\* a graph to which the validators of S were added once each, by name
RECURSIVE AddedByName(_, _, _)
AddedByName(g, validators, S) ==
    IF S = {} THEN g
    ELSE LET n == CHOOSE m \in S : \A k \in S : NameRank[m] <= NameRank[k]
         IN  AddedByName(ValidationGraph_add_validator(g, validators[n]), validators,
                         S \ {n})

\* the order of the registered validators as names, dependencies and
\* priorities alone determine it
OrderOfValidators(g) ==
    TopologicalSort(AddedByName(ValidationGraph_init, g.validators, Registered(g)))

\* C21: in the list get_execution_order returns, each validator has the
\* highest priority among the validators not yet emitted whose dependencies
\* were all emitted before it, and the list is the one that the names,
\* dependencies and priorities of the registered validators determine,
\* whatever add_validator calls led to them.
C21_OrderByPriorityWhateverTheAdds ==
    (glast.op = "order" /\ ~glast.raised)
        => /\ HighestPriorityFirst(glast.run.order, graph)
           /\ glast.run.order = OrderOfValidators(graph)

\* the same when every validator was added once (the graph holds exactly the
\* dependencies the validators declare)
C21_HoldsWithoutReplacement ==
    (glast.op = "order" /\ ~glast.raised /\ IsValidatorSet(graph))
        => /\ HighestPriorityFirst(glast.run.order, graph)
           /\ glast.run.order = OrderOfValidators(graph)

(***************************************************************************)
(* Further properties of the pipeline.                                     *)
(***************************************************************************)
\* the validators of a run whose can_validate returned false
CannotValidate(call) ==
    {n \in call.run.can_called : call.beh[n].can = "false"}

\* validator m was blocked in the run
Blocked(call, m) ==
    m \in DOMAIN call.run.results /\ ~call.run.results[m].dependencies_satisfied

\* C22: in a run, a validator whose can_validate returned false has a
\* Skipped outcome, its validate was not called, it is among the completed
\* validators, and a validator depending on it that was blocked has another
\* dependency that did not complete.
C22_SkippedCountsAsCompleted ==
    glast.op = "run"
        => \A n \in CannotValidate(glast) :
              /\ n \in DOMAIN glast.run.results
              /\ glast.run.results[n].result = SKIPPED
              /\ n \notin glast.run.validate_called
              /\ n \in glast.run.completed
              /\ \A m \in Registered(graph) :
                    (n \in Declared(graph, m) /\ Blocked(glast, m))
                        => \E d \in graph.dependencies[m] \ {n} :
                              d \notin glast.run.completed

\* a validator was skipped and the validate of one depending on it was called
C22_Witness ==
    /\ glast.op = "run"
    /\ \E n \in CannotValidate(glast) :
          \E m \in glast.run.validate_called : n \in Declared(graph, m)

(***************************************************************************)
(* add_validator and get_execution_order on two threads.                   *)
(***************************************************************************)
\* what get_execution_order gives when it runs alone on g
OrderAlone(g) == ValidationGraph_get_execution_order(View(g))

\* C23: a get_execution_order that ran while add_validator calls ran on the
\* other thread returns the order of the graph as it was before or after one
\* of these calls (so a call that began after an add_validator returned does
\* not omit the added validator), and raises only when that graph has a cycle
C23_GetterSeesGraphBetweenAdds ==
    threads.getter.pc = "done"
        => \E g \in threads.getter.views :
              /\ threads.getter.raised # "RuntimeError"
              /\ (threads.getter.raised = "ValueError") = OrderAlone(g).raised
              /\ threads.getter.ret = OrderAlone(g).ret

(***************************************************************************)
(* register and select_strategy on two threads.                            *)
(***************************************************************************)
PriorityOf(name) == (CHOOSE s \in Strategies : s.name = name).priority

\* C24: a select_strategy that runs while register runs on the other thread
\* reads only lists that are sorted by descending priority and hold every
\* strategy whose register has returned, and the strategy it returns has no
\* lower priority than any strategy able to handle the context whose
\* register had returned when the select_strategy began
C24_SelectorScansSortedRegistered ==
    LET t == threads.selector
    IN  t.pc = "done"
          => /\ t.scanned
             /\ \A j \in 1..Len(t.required) :
                   t.context \in t.required[j].handles
                     => /\ t.ret # None
                        /\ PriorityOf(t.ret) >= t.required[j].priority

(***************************************************************************)
(* DynamicRegistry.get on several threads.                                 *)
(***************************************************************************)
\* no call is in progress
Quiet == \A tid \in Tids : threads.of[tid].pc \in {"idle", "done"}

\* C25: a thread inside record_operation holds the lock, and when all calls
\* have returned total_calls is the number of calls that recorded an
\* operation and equals cache_hits + cache_misses
C25_NoMetricsUpdateIsLost ==
    /\ \A tid \in Tids :
          threads.of[tid].pc \in {"record", "assign"} => threads.lock = tid
    /\ Quiet => /\ metrics["f"].total_calls = threads.recorded
                /\ metrics["f"].total_calls
                     = metrics["f"].cache_hits + metrics["f"].cache_misses

(***************************************************************************)
(* SmartCache get, put and clear on several threads.                       *)
(***************************************************************************)
\* no thread is inside a `with self._lock` block
NobodyInside == \A tid \in Tids : threads.of[tid].pc \in {"idle", "lock", "done"}

\* C26: whenever no thread is inside get, put or clear, the cache (its map
\* and its eviction-order structures) is the one the calls that returned
\* give when they run one after the other, and each call returned what it
\* returns in that run
C26_CallsAreAtomic ==
    /\ NobodyInside => sc = threads.seq
    /\ \A tid \in Tids :
          threads.of[tid].pc = "done" => threads.of[tid].ret = threads.of[tid].expected

\* two calls have returned, one of which changed the cache while the other
\* thread waited for the lock, and an entry is cached
C26_Witness ==
    /\ NobodyInside
    /\ threads.overlapped
    /\ \A tid \in Tids : threads.of[tid].pc = "done"
    /\ sc.cache # << >>

(***************************************************************************)
(* validate_optimized and the file behind the path.                        *)
(***************************************************************************)
\* C27: a validate_optimized for a path whose file changed since the
\* validate_optimized before it (same path, same engine) runs the
\* validators again and returns what that run gave, or the engine's error
\* outcome when the run raised
C27_ChangedFileIsValidatedAgain ==
    [][(/\ glast.op = "validate"
        /\ glast'.op = "validate"
        /\ glast'.file.file_path = glast.file.file_path
        /\ glast'.file.content # glast.file.content)
          => /\ glast'.run.can_called # {}
             /\ glast'.ret \in {glast'.run.results, EngineError}]_vars


\* the name a cached result belongs to: the first component of its key
NameOf(cache_key) == cache_key[1]

\* C28: each registered factory name has its own dedicated cache: a get for
\* one name never evicts a cached result of another name (and each name can
\* hold up to cache_size results independently of the others)
C28_GetKeepsOtherNamesResults ==
    [][olast'.op = "get"
         => \A k \in Present(sc) : NameOf(k) # olast'.name => k \in Present(sc')]_vars


\* register on a name that has a factory changes the factory of that name
\* and nothing else: neither the cache nor the metrics
RegisterReplacesOnlyFactory ==
    (olast'.op = "register" /\ olast'.name \in DOMAIN registry)
        => /\ sc' = sc
           /\ metrics' = metrics
           /\ DOMAIN registry' = DOMAIN registry
           /\ \A key \in DOMAIN registry : key # olast'.name => registry'[key] = registry[key]

\* the get that follows a register of its name and whose arguments have a
\* live entry returns the cached value and invokes no factory
GetAfterRegisterIsServedFromCache ==
    (/\ olast.op = "register"
     /\ olast'.op = "get"
     /\ olast'.name = olast.name
     /\ HasOwnEntry(olast'))
        => /\ olast'.invoked = {}
           /\ ~olast'.raised
           /\ olast'.ret = info[olast'.key].value

\* C29: register(name, factory2) on a name that already has a factory
\* replaces only the factory: the metrics counters of the name are unchanged
\* and every result cached for it stays cached, so a later get with
\* previously used arguments returns the old factory's value without calling
\* factory2
C29_RegisterKeepsCacheAndMetrics ==
    [][RegisterReplacesOnlyFactory /\ GetAfterRegisterIsServedFromCache]_vars


\* v == w in Python: lists and tuples are equal item by item, sets and dicts
\* whatever the order their items are held in
RECURSIVE PyEqual(_, _)
PyEqual(v, w) ==
    /\ v.type = w.type
    /\ Len(v.items) = Len(w.items)
    /\ IF v.type = "int" THEN v.items = w.items
       ELSE IF v.type \in {"list", "tuple"}
       THEN \A i \in 1..Len(v.items) : PyEqual(v.items[i], w.items[i])
       ELSE IF v.type = "set"
       THEN \A i \in 1..Len(v.items) : \E j \in 1..Len(w.items) :
                PyEqual(v.items[i], w.items[j])
       ELSE \A i \in 1..Len(v.items) : \E j \in 1..Len(w.items) :
                /\ PyEqual(v.items[i][1], w.items[j][1])
                /\ PyEqual(v.items[i][2], w.items[j][2])

\* two calls pass arguments of equal contents: equal positional arguments,
\* and the same keyword arguments in any order
SameContents(a, b) ==
    /\ Len(a.args) = Len(b.args)
    /\ \A i \in 1..Len(a.args) : PyEqual(a.args[i], b.args[i])
    /\ Len(a.kwargs) = Len(b.kwargs)
    /\ \A i \in 1..Len(a.kwargs) : \E j \in 1..Len(b.kwargs) :
           /\ a.kwargs[i][1] = b.kwargs[j][1]
           /\ PyEqual(a.kwargs[i][2], b.kwargs[j][2])

\* C30: registry and memoize cache keys are a function of the contents of
\* the arguments only: the same keyword arguments in any order, and lists,
\* sets or dicts of equal contents (also when nested) give the same key, so
\* that the second of two such calls hits the entry of the first
C30_KeysDependOnContentsOnly ==
    [][(/\ olast.op = "get"
        /\ olast'.op = "get"
        /\ olast.invoked # {}
        /\ SameContents(olast.args, olast'.args))
          => /\ olast'.key = olast.key
             /\ memoize_cache_key(olast'.args.args, olast'.args.kwargs)
                  = memoize_cache_key(olast.args.args, olast.args.kwargs)
             /\ olast'.invoked = {}
             /\ olast'.ret = olast.ret]_vars


\* the metrics of the memoized function
FuncMetrics == metrics["func"]

\* C31: every call of a memoized function records exactly one operation in
\* the wrapper's metrics: the first call after clear_cache (or after the
\* function was wrapped) adds one to cache_misses and leaves cache_hits, and
\* the next call, made with the same arguments, adds one to cache_hits and
\* leaves cache_misses
C31_EveryCallRecordsOneOperation ==
    [][olast'.op = "call"
         => /\ FuncMetrics'.total_calls = FuncMetrics.total_calls + 1
            /\ olast.op \in {"init", "clear_cache"}
                 => /\ FuncMetrics'.cache_misses = FuncMetrics.cache_misses + 1
                    /\ FuncMetrics'.cache_hits = FuncMetrics.cache_hits
            /\ (/\ olast.op = "call"
                /\ olast.invoked # {}
                /\ olast'.args = olast.args)
                 => /\ FuncMetrics'.cache_hits = FuncMetrics.cache_hits + 1
                    /\ FuncMetrics'.cache_misses = FuncMetrics.cache_misses]_vars


\* the registered validators depend on registered validators only, and on
\* no cycle
AcyclicGraph(g) ==
    /\ \A n \in DOMAIN g.validators : Declared(g, n) \subseteq DOMAIN g.validators
    /\ \A S \in SUBSET (DOMAIN g.validators) :
          S # {} => \E n \in S : Declared(g, n) \cap S = {}

\* the validators of the levels before level i
Before(levels, i) == UNION {levels[j] : j \in 1..(i - 1)}

\* the levels partition the validators of g by the depth of their
\* dependencies
LevelsPartition(g, levels) ==
    /\ \A n \in DOMAIN g.validators :
          Cardinality({i \in 1..Len(levels) : n \in levels[i]}) = 1
    /\ \A i \in 1..Len(levels) :
          /\ \A n \in levels[i] : Declared(g, n) \subseteq Before(levels, i)
          /\ levels[i] = {n \in (DOMAIN g.validators) \ Before(levels, i) :
                            Declared(g, n) \subseteq Before(levels, i)}

\* C32: for an acyclic graph analyze_dependency_impact returns execution
\* levels that partition the registered validators: each validator is in
\* exactly one level, its dependencies are in earlier levels, and a level
\* holds every validator that became executable when the earlier levels
\* completed; the call changes neither the graph nor a cached execution
\* order
C32_LevelsPartitionValidators ==
    [][(glast'.op = "analyze" /\ AcyclicGraph(graph))
         => /\ ~olast'.raised
            /\ LevelsPartition(graph, olast'.ret)
            /\ graph'.validators = graph.validators
            /\ graph'.dependencies = graph.dependencies
            /\ graph'.dependents = graph.dependents
            /\ graph.execution_order # NoOrder
                 => graph'.execution_order = graph.execution_order]_vars


\* the registered validators can be ordered: each depends on registered
\* validators only, and none on itself through others
CanBeOrdered(g) ==
    /\ \A n \in Registered(g) : Declared(g, n) \subseteq Registered(g)
    /\ ~HasCycle(g)

\* add_validator leaves no cached order, and the order a call returned is
\* the list the next call returns
OrderIsCachedUntilAdd ==
    /\ glast.op = "add" => graph.execution_order = NoOrder
    /\ (glast.op = "order" /\ ~glast.raised)
         => /\ ~ValidationGraph_get_execution_order(graph).raised
            /\ ValidationGraph_get_execution_order(graph).ret = glast.run.order

\* C33: after any sequence of add_validator and get_execution_order calls
\* of one thread, get_execution_order returns a valid order of exactly the
\* validators registered now (whenever they can be ordered); add_validator
\* always discards the cached order, and repeated get_execution_order calls
\* with no add_validator in between return the same list
C33_OrderIsOfCurrentValidators ==
    /\ OrderIsCachedUntilAdd
    /\ (glast.op = "order" /\ CanBeOrdered(graph))
         => (~glast.raised /\ IsOrderOf(glast.run.order, graph))

\* every list get_execution_order returns orders the validators registered
\* now
C33_HoldsOfEveryReturnedOrder ==
    /\ OrderIsCachedUntilAdd
    /\ (glast.op = "order" /\ ~glast.raised) => IsOrderOf(glast.run.order, graph)


(***************************************************************************)
(* The states of a validator in a pipeline run.                            *)
(***************************************************************************)
\* validate of n was called in the run and returned an outcome
ValidateReturned(call, n) ==
    n \in call.run.validate_called /\ call.beh[n].out # Raise

\* n was marked Skipped in the run: can_validate returned false
SkippedIn(call, n) ==
    /\ n \in CannotValidate(call)
    /\ n \in DOMAIN call.run.results
    /\ call.run.results[n] = SkippedOutcome(n)

\* n was reported with "Dependencies not satisfied"
BlockedIn(call, n) ==
    /\ n \in DOMAIN call.run.results
    /\ call.run.results[n] = BlockedOutcome(n)
    /\ n \notin CannotValidate(call)

\* validate of n was called
ExecutedIn(call, n) == n \in call.run.validate_called

\* n was never decided in the run
PendingIn(call, n) == n \notin DOMAIN call.run.results

\* how many of the three final states n is in
FinalStates(call, n) ==
    Cardinality({s \in {"skipped", "blocked", "executed"} :
                    \/ s = "skipped" /\ SkippedIn(call, n)
                    \/ s = "blocked" /\ BlockedIn(call, n)
                    \/ s = "executed" /\ ExecutedIn(call, n)})

\* C34: in a run, the loop visits no validator twice, every validator is
\* either still Pending or in exactly one of Skipped, Blocked and Executed,
\* and validate was called only for validators each of whose declared
\* dependencies came earlier in the order and was Skipped or had its
\* validate return an outcome.
C34_ValidateOnlyAfterDependencies ==
    (glast.op = "run" /\ ~glast.raised)
        => LET order == glast.run.order
           IN  /\ Cardinality(SeqSet(order)) = Len(order)
               /\ DOMAIN glast.run.results \subseteq SeqSet(order)
               /\ glast.run.validate_called \subseteq SeqSet(order)
               /\ \A n \in SeqSet(order) :
                     IF PendingIn(glast, n)
                     THEN FinalStates(glast, n) = 0
                     ELSE FinalStates(glast, n) = 1
               /\ \A n \in glast.run.validate_called :
                     \A d \in Declared(graph, n) :
                        /\ d \in SeqSet(order)
                        /\ Position(order, d) < Position(order, n)
                        /\ SkippedIn(glast, d) \/ ValidateReturned(glast, d)

\* validate was called for a validator with a skipped dependency and one
\* whose validate returned, and a later validator stayed Pending
C34_Witness ==
    /\ glast.op = "run"
    /\ ~glast.raised
    /\ \E n \in glast.run.validate_called :
          /\ \E d \in Declared(graph, n) : SkippedIn(glast, d)
          /\ \E d \in Declared(graph, n) : ValidateReturned(glast, d)
    /\ \E m \in SeqSet(glast.run.order) : PendingIn(glast, m)


\* n can validate the context and declares a dependency whose validate
\* raised or that was blocked, and it is reported as blocked: Error, High,
\* dependencies_satisfied false, validate not called, not completed
BlockedAfterFailedDependency(call, g, n) ==
    (/\ call.beh[n].can = "true"
     /\ \E d \in Declared(g, n) \cap SeqSet(call.run.order) :
           d \in ValidateRaised(call) \/ BlockedIn(call, d))
        => /\ n \in DOMAIN call.run.results
           /\ call.run.results[n].result = ERROR
           /\ call.run.results[n].severity = HIGH
           /\ ~call.run.results[n].dependencies_satisfied
           /\ n \notin call.run.validate_called
           /\ n \notin call.run.completed

\* C35: in a run without fail_fast, a validator that can validate the
\* context and depends on a validator whose validate raised, or that was
\* blocked, has an Error outcome of severity High with dependencies_satisfied
\* false, its validate was not called and it is not among the completed
\* validators.
C35_DependentsOfFailedAreBlocked ==
    (glast.op = "run" /\ ~glast.raised /\ ~glast.fail_fast)
        => \A n \in SeqSet(glast.run.order) :
              BlockedAfterFailedDependency(glast, graph, n)

\* the same of the runs in which no can_validate raised
C35_HoldsWhenNoCanValidateRaises ==
    (glast.op = "run" /\ ~glast.raised /\ ~glast.fail_fast /\ ~glast.run.exception)
        => \A n \in SeqSet(glast.run.order) :
              BlockedAfterFailedDependency(glast, graph, n)

\* a validate raised, a validator depending on it was blocked, and one
\* depending on that one was blocked in turn
C35_BlockedInTurn ==
    /\ glast.op = "run" /\ ~glast.raised /\ ~glast.fail_fast
    /\ \E n, m, d \in SeqSet(glast.run.order) :
          /\ d \in ValidateRaised(glast)
          /\ d \in Declared(graph, m) /\ BlockedIn(glast, m)
          /\ m \in Declared(graph, n) /\ BlockedIn(glast, n)


\* C36: in a fail_fast run no validator has an outcome with
\* dependencies_satisfied false, and every validator the run reached (its
\* can_validate was called) had all its dependencies in the graph completed.
C36_FailFastNeverReportsBlocked ==
    (glast.op = "run" /\ ~glast.raised /\ glast.fail_fast)
        => /\ \A n \in DOMAIN glast.run.results :
                 /\ ~Blocked(glast, n)
                 /\ glast.run.results[n] # BlockedOutcome(n)
           /\ \A n \in glast.run.can_called :
                 graph.dependencies[n] \subseteq glast.run.completed

\* a fail_fast run ended at a validator whose validate raised or returned a
\* blocking outcome, before a validator depending on it was reached
C36_Witness ==
    /\ glast.op = "run" /\ ~glast.raised /\ glast.fail_fast
    /\ \E d \in glast.run.validate_called :
          /\ d \in ValidateRaised(glast)
          /\ \E n \in SeqSet(glast.run.order) :
                d \in Declared(graph, n) /\ n \notin glast.run.can_called
    /\ \E d \in glast.run.validate_called :
          \E n \in SeqSet(glast.run.order) :
                d \in Declared(graph, n) /\ n \in glast.run.validate_called


(***************************************************************************)
(* The order structures of LRU and FIFO and the cache map.                 *)
(***************************************************************************)
\* seq holds exactly the keys of S, each once
ListsEachOnce(seq, S) == SeqSet(seq) = S /\ Len(seq) = Cardinality(S)

\* the structure _evict_one pops from under the policy of s
OrderStructure(s) == IF s.policy = LRU THEN s.access_order ELSE s.fifo_order

\* C37: under LRU the access-order deque, and under FIFO the insertion-order
\* map, holds exactly the keys of the cache map, each once, after every put,
\* get (expiry included), eviction and clear; and a put that evicts from a
\* non-empty cache under LRU or FIFO removes the first key of the structure,
\* which is present.
C37_OrderStructureHoldsPresentKeys ==
    [][sc'.policy \in {LRU, FIFO}
         => /\ ListsEachOnce(OrderStructure(sc'), Present(sc'))
            /\ (PutsNewAtCapacity /\ Present(sc) # {})
                 => /\ OrderStructure(sc) # << >>
                    /\ Head(OrderStructure(sc)) \in Present(sc)
                    /\ Replaces(Head(OrderStructure(sc)))]_cvars

\* an LRU or FIFO put evicted a key from a cache with a TTL after more time
\* than the TTL had passed, and two keys are present, one put earlier
C37_Witness ==
    /\ sc.policy \in {LRU, FIFO}
    /\ last.op = "put"
    /\ last.removed # {}
    /\ sc.ttl_seconds # 0
    /\ now > sc.ttl_seconds
    /\ Cardinality(Present(sc)) >= 2
    /\ \E k \in Present(sc) : info[k].putTime < now


\* thread tid invokes the factory in the step
InvokesFactory(tid) ==
    /\ threads.of[tid].pc = "create"
    /\ threads'.of[tid].pc # "create"

\* the cache holds the result that the get of thread u created for cache_key
HoldsResultOf(u, cache_key) ==
    /\ threads.of[u].invoked # {}
    /\ threads.of[u].cache_key = cache_key
    /\ ~threads.of[u].raised
    /\ threads.of[u].result # None
    /\ cache_key \in Present(sc)
    /\ sc.cache[cache_key].value = threads.of[u].result

\* C38: of the threads that call get with the same name and arguments one
\* invokes the factory: no thread invokes it when the cache already holds
\* the result another thread's get created for these arguments.
C38_ConcurrentGetsInvokeFactoryOnce ==
    [][\A tid \in Tids :
         InvokesFactory(tid)
            => \A u \in Tids \ {tid} :
                  ~HoldsResultOf(u, threads.of[tid].cache_key)]_vars


(***************************************************************************)
(* PerformanceMetrics after record_operation calls.                        *)
(***************************************************************************)
OpMetrics == metrics["op"]

\* the integer counters add up, min is at most max, nothing decreases
CountersConsistent ==
    /\ OpMetrics'.total_calls = OpMetrics'.cache_hits + OpMetrics'.cache_misses
    /\ OpMetrics'.total_calls >= 1
         => OpMetrics'.min_duration_ms <= OpMetrics'.max_duration_ms
    /\ \A field \in {"total_calls", "cache_hits", "cache_misses", "total_duration_ms",
                     "cache_hit_duration_ms", "cache_miss_duration_ms"} :
          OpMetrics'[field] >= OpMetrics[field]

\* C39: after every record_operation, total_calls = cache_hits +
\* cache_misses, total_duration_ms = cache_hit_duration_ms +
\* cache_miss_duration_ms, min_duration_ms <= max_duration_ms once a call is
\* recorded, and no counter has decreased.
C39_MetricsAddUp ==
    [][/\ CountersConsistent
       /\ OpMetrics'.total_duration_ms
            = FloatAdd(OpMetrics'.cache_hit_duration_ms,
                       OpMetrics'.cache_miss_duration_ms)]_vars

\* the parts of C39 that do not add the duration sums
C39_HoldsOfCountersAndBounds == [][CountersConsistent]_vars

\* the duration sums add up as long as no sum needs more bits than the
\* significand has
C39_HoldsOfDurationsWhileExact ==
    [][BitLength(OpMetrics'.cache_hit_duration_ms + OpMetrics'.cache_miss_duration_ms)
          <= SignificandBits
         => OpMetrics'.total_duration_ms
              = OpMetrics'.cache_hit_duration_ms + OpMetrics'.cache_miss_duration_ms]_vars


\* C40: after add_validator with a name that is already registered, the
\* dependency set the graph holds for the name is that of the new validator,
\* the names that list it as a dependent are exactly its dependencies, and
\* can_execute lets it run once the new validator's dependencies completed.
C40_ReplacingAddReplacesEdges ==
    [][(glast'.op = "add" /\ glast'.validator.name \in Registered(graph))
         => LET validator == glast'.validator
            IN  /\ graph'.validators[validator.name] = validator
                /\ graph'.dependencies[validator.name] = validator.dependencies
                /\ \A dep \in Names :
                      validator.name \in graph'.dependents[dep]
                         <=> dep \in Declared(graph', validator.name)
                /\ ValidationGraph_can_execute(graph', validator.name,
                                               validator.dependencies)]_vars

\* the same of an add_validator with a name that is not registered
C40_HoldsOfFirstAdd ==
    [][(glast'.op = "add" /\ glast'.validator.name \notin Registered(graph))
         => LET validator == glast'.validator
            IN  /\ graph'.validators[validator.name] = validator
                /\ graph'.dependencies[validator.name] = validator.dependencies
                /\ ValidationGraph_can_execute(graph', validator.name,
                                               validator.dependencies)]_vars

====
